---------------------------- MODULE Spec2Model ----------------------------
(***************************************************************************)
(* The quiz session engine of the WordQuiz backend.                        *)
(*                                                                         *)
(* backend/app.py serves /quiz/start, /quiz/question, /quiz/answer and     *)
(* /quiz/summary on a process-wide SESSIONS dictionary.                    *)
(* backend/modules/nationalities/router.py holds a second copy of the four *)
(* handlers, but the module cannot be imported (see RouterLoads) and       *)
(* app.py does not mount it: no request reaches that copy.                 *)
(*                                                                         *)
(* Texts are sequences of words ("un Belge" is <<"un", "Belge">>), so that *)
(* str.split, str.startswith and the " et" search are computed as the      *)
(* code computes them.  Python lists are sequences (index i of the code is *)
(* index i + 1 here); question_map is a function on 0 .. n - 1 as in the   *)
(* code.                                                                   *)
(***************************************************************************)
EXTENDS Integers, Sequences, FiniteSets, TLC

VARIABLES
    RAW_QUESTIONS,    \* app.py:127 the pool, in file order: <<[id, answer]>>
    default_options,  \* "default_options" of questions.json (K)
    QUESTIONS,        \* app.py:134 prebuilt question per id
    SESSIONS,         \* app.py:53 session id -> QuizSession
    last,             \* the last request and its HTTP response
    FILES,            \* the files under settings.AUDIO_OUTPUT_DIR
    static_root,      \* Path(settings.AUDIO_OUTPUT_DIR).name
    inflight,         \* the calls running in worker threads
    written           \* history: per session, every value assigned to
                      \* session.answers[...] (app.py:420), in order

vars == <<RAW_QUESTIONS, default_options, QUESTIONS, FILES, static_root, SESSIONS,
          last, inflight, written>>

\* what is fixed once the module is imported
loaded == <<RAW_QUESTIONS, default_options, QUESTIONS, FILES, static_root>>

----------------------------------------------------------------------------
(* Bounds of the checked instances.                                        *)

\* Spec: one session, the whole life cycle.
MaxPool == 2
MaxCount == 2

\* SpecGen: option generation, one question per session.
GenMaxPool == 3
GenMaxK == 3

\* SpecMulti: two sessions side by side.
MultiMaxCount == 2

\* SpecConc: two submit_answer calls in flight.
ConcMaxCount == 2

\* SpecBot: the quiz handler of the chat bot.
BotMaxQuestions == 2
BotMaxStarts == 2

\* SpecFresh: a data file with an entry that has no answer.
FreshMaxPool == 2
FreshMaxCount == 2

\* SpecAudio: the quiz over a backing store of audio files.
AudioMaxPool == 2

\* SpecCross: requests of two sessions in flight together.
CrossMaxPool == 1
CrossMaxCount == 2

\* "default_options" of the data file in Spec and SpecConc, and in SpecMulti
OptionCounts == {1, 2}
MultiOptionCounts == {1}

\* uuid4() values (app.py:276)
SessionIds == {"s1"}
MultiSessionIds == {"s1", "s2"}
\* a well-formed UUID that start_quiz never returned
NoSuchSession == "s0"

Users == {"u1"}
MultiUsers == {"u1", "u2"}
Threads == {"t1", "t2"}

\* tests/test_quiz_api.py:79: a question id outside the pool
WrongQid == 999999

\* the catalog the pools are cut from: questions.json holds the first n
\* entries, n = 0 meaning an absent or empty file (app.py:101, 108)
\* "country" and "audio" are the other two keys of an entry; audio is a
\* path as a sequence of its parts, <<>> for a missing key (None) and <<"">>
\* for the empty string
Catalog ==
    << [id |-> 1, answer |-> <<"un", "Francais", "et", "une", "Francaise">>,
        country |-> <<"France">>, audio |-> <<"audio/", "q", "1", ".mp3">>],
       [id |-> 2, answer |-> <<"un", "Belge">>,
        country |-> <<"Belgique">>, audio |-> <<>>],
       [id |-> 3, answer |-> <<"le", "Belge">>,
        country |-> <<>>, audio |-> <<"">>],
       [id |-> 4, answer |-> <<"Suisse">>,
        country |-> <<"Suisse">>, audio |-> <<"https://cdn/", "q", "4", ".mp3">>],
       [id |-> 5, answer |-> <<"un", "Danois", "et", "une", "Danoise">>,
        country |-> <<"Danemark">>, audio |-> <<"audio/", "q", "5", ".ogg">>] >>

\* str(qid) inside a file name
IdText == <<"1", "2", "3", "4", "5", "6">>

\* the parts of a path that end a directory, and those that are a suffix
DirParts == {"audio/", "fr/", "https://cdn/"}
SuffixParts == {".mp3", ".ogg"}

\* the suffix "_alt{i}" of a padding option is the word AltSuffix[i + 1]
\* appended to the answer (app.py:170)
AltSuffix == <<"_alt0", "_alt1", "_alt2", "_alt3", "_alt4", "_alt5">>

----------------------------------------------------------------------------
(* Helpers on sequences.                                                   *)

Range(s) == {s[i] : i \in DOMAIN s}

Min(a, b) == IF a <= b THEN a ELSE b

Max(a, b) == IF a >= b THEN a ELSE b

\* all orders random.shuffle can leave a list of n elements in
Perms(n) == {p \in [1 .. n -> 1 .. n] : \A i, j \in 1 .. n : p[i] = p[j] => i = j}

Shuffled(s, p) == [i \in 1 .. Len(s) |-> s[p[i]]]

----------------------------------------------------------------------------
(* The question pool (load_questions).                                     *)

\* the pools questions.json can hold: the first n entries of the catalog
Pools(maxPool) == {SubSeq(Catalog, 1, n) : n \in 0 .. maxPool}

\* list(RAW_QUESTIONS.keys())
AllIds(raw) == [i \in 1 .. Len(raw) |-> raw[i].id]

\* RAW_QUESTIONS[qid]
Raw(raw, qid) == raw[CHOOSE i \in 1 .. Len(raw) : raw[i].id = qid]

\* RAW_QUESTIONS[qid]["answer"]
Answer(raw, qid) == Raw(raw, qid).answer

\* None, and what Python takes for false in "if not path" / "if country"
None == <<>>
\* mutant of Falsy: only None counts as empty
FalsyNoneOnly(x) == x = None

Falsy(x) == x = None \/ x = <<"">>

\* prompt = f"{base_prompt}: " if country else base_prompt (app.py:113)
PromptText(r) ==
    IF Falsy(r.country) THEN <<"base_question">> ELSE <<"base_question", ": ">>

----------------------------------------------------------------------------
(* Option generation of app.py (lines 136-189, repeated at 283-362).       *)

\* a word that begins with "et": of the catalog's words only "et" does
StartsWithEt(w) == w = "et"

\* ans.startswith("un ") and " et" in ans
IsUnEt(ans) ==
    /\ Len(ans) >= 2
    /\ ans[1] = "un"
    /\ \E i \in 2 .. Len(ans) : StartsWithEt(ans[i])

\* ans[len("un "):].split(" et")[0].strip()
UnEtBase(ans) ==
    LET rest == Tail(ans)
        cuts == {j \in 2 .. Len(rest) : StartsWithEt(rest[j])}
    IN  IF cuts = {} THEN rest
        ELSE SubSeq(rest, 1, (CHOOSE j \in cuts : \A k \in cuts : j <= k) - 1)

\* the masculine base of an answer (app.py:142-146)
Base(ans) ==
    IF IsUnEt(ans) THEN UnEtBase(ans)
    ELSE IF Len(ans) > 1 THEN <<ans[2]>> ELSE <<ans[1]>>

\* _pool: the bases of all answers, in file order (app.py:137-147)
BasePool(raw) ==
    LET answered == SelectSeq(raw, LAMBDA r : ~Falsy(r.answer))
    IN  [i \in 1 .. Len(answered) |-> Base(answered[i].answer)]

\* correct.split()[1] if len(correct.split()) > 1 else correct
OwnBase(correct) == IF Len(correct) > 1 THEN <<correct[2]>> ELSE correct

\* [p for p in _pool if p != ...] (app.py:161)
RECURSIVE CandidatesFrom(_, _, _)
CandidatesFrom(pool, i, correct) ==
    IF i > Len(pool) THEN <<>>
    ELSE (IF pool[i] # OwnBase(correct) THEN <<pool[i]>> ELSE <<>>)
         \o CandidatesFrom(pool, i + 1, correct)

Candidates(raw, correct) == CandidatesFrom(BasePool(raw), 1, correct)

\* opts_texts after the distractor loop and the padding loop (app.py:160-171);
\* cands is the shuffled candidate list
\* mutant of OptsTexts: the distractors are drawn with replacement, here
\* the first candidate every time
OptsTextsRepeated(correct, cands, K) ==
    LET m == Max(0, Min(K - 1, Len(cands)))
        distractors == [i \in 1 .. m |-> <<"un">> \o cands[1]]
        pads == [i \in 1 .. K - 1 - m |-> correct \o <<AltSuffix[i]>>]
    IN  <<correct>> \o distractors \o pads

\* mutant of OptsTexts: the padding loop is left out
OptsTextsUnpadded(correct, cands, K) ==
    LET m == Max(0, Min(K - 1, Len(cands)))
        distractors == [i \in 1 .. m |-> <<"un">> \o cands[i]]
    IN  <<correct>> \o distractors

OptsTexts(correct, cands, K) ==
    LET m == Max(0, Min(K - 1, Len(cands)))
        distractors == [i \in 1 .. m |-> <<"un">> \o cands[i]]
        pads == [i \in 1 .. K - 1 - m |-> correct \o <<AltSuffix[i]>>]
    IN  <<correct>> \o distractors \o pads

\* mutant of CorrectIdx: correct_idx keeps its initial value
CorrectIdxDefault(enumerated, correct) == 1

\* correct_idx = 1, then set at every option whose text is the answer
\* (app.py:177-181)
CorrectIdx(enumerated, correct) ==
    LET hits == {i \in 1 .. Len(enumerated) : enumerated[i] = correct}
    IN  IF hits = {} THEN 1 ELSE CHOOSE i \in hits : \A j \in hits : j <= i

\* opts: Option(id=idx, text=text, audio=None) (app.py:176-179)
NoAudio == None

AppOptions(enumerated) ==
    [idx \in 1 .. Len(enumerated) |->
        [id |-> idx, text |-> enumerated[idx], audio |-> NoAudio]]

\* the Question objects the import-time loop can build for qid
\* (app.py:156-189), one per outcome of the two random.shuffle calls
AppQuestions(raw, K, qid) ==
    LET correct == Answer(raw, qid)
        cands == Candidates(raw, correct)
    IN  UNION { LET texts == OptsTexts(correct, Shuffled(cands, p), K)
                IN  { LET enumerated == Shuffled(texts, s)
                      IN  [id |-> qid,
                           prompt_text |-> PromptText(Raw(raw, qid)),
                           prompt_audio |-> Raw(raw, qid).audio,
                           options |-> AppOptions(enumerated),
                           correct_option_id |-> CorrectIdx(enumerated, correct)]
                      : s \in Perms(Len(texts)) }
                : p \in Perms(Len(cands)) }

\* every value the import-time build can leave in QUESTIONS (app.py:134-189)
PrebuiltQuestions(raw, K) ==
    LET unanswered == {i \in 1 .. Len(raw) : raw[i].answer = None}
        built == IF unanswered = {} THEN Len(raw)
                 ELSE (CHOOSE i \in unanswered : \A j \in unanswered : i <= j) - 1
        ids == {raw[i].id : i \in 1 .. built}
    IN  {f \in [ids -> UNION {AppQuestions(raw, K, q) : q \in ids}] :
            \A q \in ids : f[q] \in AppQuestions(raw, K, q)}

\* audio_path of the option in slot idx of question qid (app.py:338-349)
FreshAudio(qid, idx, files) ==
    LET name == <<"q", IdText[qid], "_opt", IdText[idx]>>
    IN  IF name \o <<".mp3">> \in files THEN <<"audio/">> \o name \o <<".mp3">>
        ELSE IF name \o <<".ogg">> \in files THEN <<"audio/">> \o name \o <<".ogg">>
        ELSE None

\* the Question objects start_quiz can build for a qid that QUESTIONS lacks
\* (app.py:309-362): the generation of lines 156-189 over again, with the
\* audio of lines 338-349
FreshQuestions(raw, K, qid, files) ==
    { [q EXCEPT !.options =
            [idx \in DOMAIN @ |-> [@[idx] EXCEPT !.audio = FreshAudio(qid, idx, files)]]]
        : q \in AppQuestions(raw, K, qid) }

----------------------------------------------------------------------------
(* modules/nationalities/router.py.  Its first statement after the         *)
(* standard imports is "from ...schemas import (Card, Question, ...)"      *)
(* (lines 11-22); backend/schemas.py defines no Card, so importing the     *)
(* module raises ImportError and none of its handlers is ever registered.  *)

\* the classes backend/schemas.py defines
SchemaNames ==
    {"Option", "Question", "QuizSession", "StartQuizIn", "StartQuizOut",
     "OptionResponse", "QuestionOut", "AnswerIn", "AnswerOut", "SummaryOut"}

\* the names router.py imports from it
RouterImports ==
    {"Card", "Question", "QuizSession", "StartQuizIn", "StartQuizOut",
     "OptionResponse", "QuestionOut", "AnswerIn", "AnswerOut", "SummaryOut"}

\* the import of router.py succeeds
RouterLoads == RouterImports \subseteq SchemaNames

----------------------------------------------------------------------------
(* _audio_url (app.py:60-95).  A path is the sequence of its parts,        *)
(* FILES holds the paths below the audio directory.                        *)

\* path.startswith("audio/")
StartsWithAudio(path) == Len(path) >= 1 /\ path[1] = "audio/"

\* rel = path.split('/', 1)[1]
Rel(path) == Tail(path)

\* Path(rel).suffix
Suffix(rel) ==
    IF Len(rel) >= 1 /\ rel[Len(rel)] \in SuffixParts THEN <<rel[Len(rel)]>> ELSE <<>>

\* Path(rel).stem: the last component without its suffix
Stem(rel) ==
    LET dirs == {i \in 1 .. Len(rel) : rel[i] \in DirParts}
        first == IF dirs = {} THEN 1 ELSE (CHOOSE i \in dirs : \A j \in dirs : j <= i) + 1
    IN  SubSeq(rel, first, Len(rel) - Len(Suffix(rel)))

\* variants = [f"{stem}_country{ext}", f"{stem}_answer{ext}"]
\* mutant of Variants: the "_answer" form is tried first
VariantsAnswerFirst(rel) ==
    << Stem(rel) \o <<"_answer">> \o Suffix(rel),
       Stem(rel) \o <<"_country">> \o Suffix(rel) >>

Variants(rel) ==
    << Stem(rel) \o <<"_country">> \o Suffix(rel),
       Stem(rel) \o <<"_answer">> \o Suffix(rel) >>

\* (static_root / rel).exists(); static_root / "" is the directory itself
Exists(files, rel) == rel = <<>> \/ rel \in files

\* f"/static/{rel}" if static_root.name == "audio" else f"/static/audio/{rel}"
StaticUrl(root, rel) ==
    IF root = "audio" THEN <<"/static/">> \o rel ELSE <<"/static/", "audio/">> \o rel

\* the value _audio_url returns for a path
\* mutant of audio_url: for a reference with no file behind it, some file of
\* the directory is offered
audio_urlAnyFile(path, files, root) ==
    IF Falsy(path) THEN None
    ELSE IF StartsWithAudio(path)
    THEN LET rel == Rel(path)
             found == {i \in 1 .. Len(Variants(rel)) : Exists(files, Variants(rel)[i])}
         IN  IF Exists(files, rel) THEN StaticUrl(root, rel)
             ELSE IF found # {}
             THEN StaticUrl(root, Variants(rel)[CHOOSE i \in found : \A j \in found : i <= j])
             ELSE IF files # {} THEN StaticUrl(root, CHOOSE f \in files : TRUE)
             ELSE IF root = "audio" THEN <<"/static/">> \o rel
             ELSE <<"/static/">> \o path
    ELSE path

\* mutant of audio_url: a reference with no file behind it resolves to None
audio_urlStrict(path, files, root) ==
    IF Falsy(path) THEN None
    ELSE IF StartsWithAudio(path)
    THEN LET rel == Rel(path)
             found == {i \in 1 .. Len(Variants(rel)) : Exists(files, Variants(rel)[i])}
         IN  IF Exists(files, rel) THEN StaticUrl(root, rel)
             ELSE IF found # {}
             THEN StaticUrl(root, Variants(rel)[CHOOSE i \in found : \A j \in found : i <= j])
             ELSE None
    ELSE path

audio_url(path, files, root) ==
    IF Falsy(path) THEN None
    ELSE IF StartsWithAudio(path)
    THEN LET rel == Rel(path)
             found == {i \in 1 .. Len(Variants(rel)) : Exists(files, Variants(rel)[i])}
         IN  IF Exists(files, rel) THEN StaticUrl(root, rel)
             ELSE IF found # {}
             THEN StaticUrl(root, Variants(rel)[CHOOSE i \in found : \A j \in found : i <= j])
             ELSE IF root = "audio" THEN <<"/static/">> \o rel
             ELSE <<"/static/">> \o path
    ELSE path

\* _audio_url on the audio directory as it is
AudioUrl(path) == audio_url(path, FILES, static_root)

----------------------------------------------------------------------------
(* Sessions (class QuizSession) and the session store.                     *)

NoSessions == [sid \in {} |-> {}]

NoAnswers == [qid \in {} |-> FALSE]

\* QuizSession(session_id=uuid4(), user_id=..., question_ids=chosen_ids)
\* with the defaults of the class (app.py:41-50, 275-279)
NewSession(user_id, chosen_ids, question_map) ==
    [user_id |-> user_id,
     question_ids |-> chosen_ids,
     current_index |-> 0,
     correct_count |-> 0,
     finished |-> FALSE,
     answers |-> NoAnswers,
     question_map |-> question_map]

\* mutant of Stored: the dictionary is rebound to the new session alone
StoredAlone(store, sid, session) == [k \in {sid} |-> session]

\* SESSIONS[session.session_id] = session (app.py:364)
Stored(store, sid, session) ==
    [k \in DOMAIN store \cup {sid} |-> IF k = sid THEN session ELSE store[k]]

\* mutant of ClampCount: the count is capped by the size of the pool
ClampCountToPool(n_questions) == Max(1, Min(n_questions, Len(RAW_QUESTIONS)))

\* n = max(1, int(payload.n_questions)) (app.py:271)
ClampCount(n_questions) == Max(1, n_questions)

\* random.choices(all_ids, k=n): every sequence of n ids of the pool
Choices(all_ids, n) == [1 .. n -> Range(all_ids)]

----------------------------------------------------------------------------
(* Responses.                                                               *)

Ok == [status |-> 200, detail |-> ""]

\* mutant of NoQuestionsConfigured: the empty pool is not reported
NoQuestionsIgnored == [status |-> 200, detail |-> ""]

\* the response to an exception that no handler catches
InternalError == [status |-> 500, detail |-> "Internal Server Error"]

\* raise HTTPException(500, ...) of start_quiz (app.py:269)
NoQuestionsConfigured ==
    [status |-> 500, detail |-> "No questions configured on the server"]

\* mutant of SessionNotFound: the unknown session is reported as a bad request
SessionNotFoundBadRequest == [status |-> 400, detail |-> "Session not found"]

\* raise HTTPException(404, ...) of _get_session_or_404 (app.py:196-200)
SessionNotFound == [status |-> 404, detail |-> "Session not found"]

AlreadyFinished == [status |-> 400, detail |-> "Quiz already finished"]

Response(op, arg, res, out) ==
    [op |-> op, arg |-> arg, status |-> res.status, detail |-> res.detail,
     out |-> out]

NoOut == <<>>

----------------------------------------------------------------------------
(* get_question (app.py:372-399).                                          *)

\* mutant of InRange: the upper limit is included
InRangeInclusive(index, session) == 0 <= index /\ index <= Len(session.question_ids)

\* 0 <= index < len(session.question_ids)
InRange(index, session) == 0 <= index /\ index < Len(session.question_ids)

\* mutant of GetQuestionCheck: the range check comes before the finished check
GetQuestionCheckRangeFirst(store, sid, index) ==
    IF sid \notin DOMAIN store THEN SessionNotFound
    ELSE IF ~InRange(index, store[sid])
        THEN [status |-> 400, detail |-> "Index out of range"]
    ELSE IF store[sid].finished THEN AlreadyFinished
    ELSE Ok

\* the checks of get_question in the order of the code (app.py:374-382)
GetQuestionCheck(store, sid, index) ==
    IF sid \notin DOMAIN store THEN SessionNotFound
    ELSE IF store[sid].finished THEN AlreadyFinished
    ELSE IF ~InRange(index, store[sid])
        THEN [status |-> 400, detail |-> "Index out of range"]
    ELSE IF index \notin DOMAIN store[sid].question_map
        THEN [status |-> 500, detail |-> "Session question not prepared"]
    ELSE Ok

\* mutant of QuestionOut: the question of the current position is served
QuestionOutCurrent(sid, session, index) ==
    LET q == session.question_map[session.current_index]
    IN  [session_id |-> sid,
         index |-> index,
         total |-> Len(session.question_ids),
         question_id |-> q.id,
         prompt_text |-> q.prompt_text,
         prompt_audio_url |-> AudioUrl(q.prompt_audio),
         options |-> [i \in 1 .. Len(q.options) |->
                        [number |-> q.options[i].id,
                         audio_url |-> AudioUrl(q.options[i].audio)]]]

\* mutant of QuestionOut: the options carry their text
QuestionOutWithText(sid, session, index) ==
    LET q == session.question_map[index]
    IN  [session_id |-> sid,
         index |-> index,
         total |-> Len(session.question_ids),
         question_id |-> q.id,
         prompt_text |-> q.prompt_text,
         prompt_audio_url |-> AudioUrl(q.prompt_audio),
         options |-> [i \in 1 .. Len(q.options) |->
                        [number |-> q.options[i].id,
                         text |-> q.options[i].text,
                         audio_url |-> AudioUrl(q.options[i].audio)]]]

\* QuestionOut (app.py:383-399)
QuestionOut(sid, session, index) ==
    LET q == session.question_map[index]
    IN  [session_id |-> sid,
         index |-> index,
         total |-> Len(session.question_ids),
         question_id |-> q.id,
         prompt_text |-> q.prompt_text,
         prompt_audio_url |-> AudioUrl(q.prompt_audio),
         options |-> [i \in 1 .. Len(q.options) |->
                        [number |-> q.options[i].id,
                         audio_url |-> AudioUrl(q.options[i].audio)]]]

get_question(sid, index) ==
    LET res == GetQuestionCheck(SESSIONS, sid, index)
        arg == [session_id |-> sid, index |-> index]
    IN  /\ last' = Response("get_question", arg, res,
                            IF res = Ok THEN QuestionOut(sid, SESSIONS[sid], index)
                            ELSE NoOut)
        /\ UNCHANGED <<loaded, SESSIONS, inflight, written>>

----------------------------------------------------------------------------
(* submit_answer (app.py:402-440).                                         *)

\* session.question_ids[session.current_index]
\* mutant of ExpectedQid: the id of the position answered last is expected
ExpectedQidAnswered(session) ==
    session.question_ids[Max(1, session.current_index)]

ExpectedQid(session) == session.question_ids[session.current_index + 1]

\* mutant of OrderMismatch: the id is searched anywhere in picks
OrderMismatchAnywhere(session, question_id) ==
    question_id \notin Range(session.question_ids)

\* expected_qid != payload.question_id (app.py:411-412)
OrderMismatch(session, question_id) == ExpectedQid(session) # question_id

\* the checks of submit_answer up to the order check (app.py:404-413)
SubmitCheck(store, sid, question_id) ==
    IF sid \notin DOMAIN store THEN SessionNotFound
    ELSE IF store[sid].finished THEN AlreadyFinished
    ELSE IF ~InRange(store[sid].current_index, store[sid])
        THEN [status |-> 400, detail |-> "Invalid session index"]
    ELSE IF OrderMismatch(store[sid], question_id)
        THEN [status |-> 400, detail |-> "Question order mismatch"]
    ELSE Ok

\* q = session.question_map.get(session.current_index) (app.py:416-418)
LookupCheck(session) ==
    IF session.current_index \notin DOMAIN session.question_map
        THEN [status |-> 400, detail |-> "Question not found in session"]
    ELSE Ok

\* is_correct = (payload.selected_option_id == q.correct_option_id)
IsCorrect(q, selected_option_id) == selected_option_id = q.correct_option_id

\* session.answers[q.id] = is_correct (app.py:420)
\* mutant of Recorded: the answer is stored under the position
RecordedByPosition(session, q, is_correct) ==
    [session EXCEPT !.answers =
        [k \in DOMAIN session.answers \cup {session.current_index} |->
            IF k = session.current_index THEN is_correct ELSE session.answers[k]]]

\* mutant of Recorded: the answered question is marked as used up
RecordedConsuming(session, q, is_correct) ==
    [session EXCEPT !.answers =
        [k \in DOMAIN session.answers \cup {q.id} |->
            IF k = q.id THEN is_correct ELSE session.answers[k]],
                    !.question_map[session.current_index].correct_option_id = 0]

Recorded(session, q, is_correct) ==
    [session EXCEPT !.answers =
        [k \in DOMAIN session.answers \cup {q.id} |->
            IF k = q.id THEN is_correct ELSE session.answers[k]]]

\* mutant of Scored: a wrong answer resets the score
ScoredOrReset(session, is_correct) ==
    [session EXCEPT !.correct_count = IF is_correct THEN @ + 1 ELSE 0]

\* mutant of Scored: the score grows with every accepted answer
ScoredAlways(session, is_correct) == [session EXCEPT !.correct_count = @ + 1]

\* if is_correct: session.correct_count += 1 (app.py:421-422)
Scored(session, is_correct) ==
    [session EXCEPT !.correct_count = IF is_correct THEN @ + 1 ELSE @]

\* mutant of Advanced: the index skips a position
AdvancedByTwo(session) == [session EXCEPT !.current_index = @ + 2]

\* session.current_index += 1 (app.py:425)
Advanced(session) == [session EXCEPT !.current_index = @ + 1]

\* mutant of Finish: finished is never set
FinishNever(session) == session

\* mutant of Finish: finished one position early
FinishOneEarly(session) ==
    [session EXCEPT !.finished =
        IF session.current_index >= Len(session.question_ids) - 1 THEN TRUE ELSE @]

\* if session.current_index >= len(session.question_ids): finished = True
Finish(session) ==
    [session EXCEPT !.finished =
        IF session.current_index >= Len(session.question_ids) THEN TRUE ELSE @]

\* lines 419-427 run without interruption
Answered(session, selected_option_id) ==
    LET q == session.question_map[session.current_index]
        is_correct == IsCorrect(q, selected_option_id)
    IN  Finish(Advanced(Scored(Recorded(session, q, is_correct), is_correct)))

\* next(o for o in q.options if o.id == q.correct_option_id)
CorrectOpt(q) ==
    q.options[CHOOSE i \in 1 .. Len(q.options) :
                /\ q.options[i].id = q.correct_option_id
                /\ \A j \in 1 .. i - 1 : q.options[j].id # q.correct_option_id]

\* mutant of AnswerOut: the index is reported without the clamp
AnswerOutUnclamped(session, q, is_correct) ==
    [correct |-> is_correct,
     correct_option_id |-> CorrectOpt(q).id,
     correct_option_text |-> CorrectOpt(q).text,
     correct_option_audio_url |-> AudioUrl(CorrectOpt(q).audio),
     score |-> session.correct_count,
     index |-> session.current_index,
     total |-> Len(session.question_ids),
     finished |-> session.finished]

\* AnswerOut, built from the session as it is after the update (app.py:429-440)
AnswerOut(session, q, is_correct) ==
    [correct |-> is_correct,
     correct_option_id |-> CorrectOpt(q).id,
     correct_option_text |-> CorrectOpt(q).text,
     correct_option_audio_url |-> AudioUrl(CorrectOpt(q).audio),
     score |-> session.correct_count,
     index |-> Min(session.current_index, Len(session.question_ids) - 1),
     total |-> Len(session.question_ids),
     finished |-> session.finished]

\* mutant of AnswerEffect: lines 419-427 run before the checks raise
AnswerEffectBeforeChecks(store, sid, res, selected_option_id) ==
    IF /\ sid \in DOMAIN store
       /\ ~store[sid].finished
       /\ store[sid].current_index \in DOMAIN store[sid].question_map
    THEN [store EXCEPT ![sid] = Answered(store[sid], selected_option_id)]
    ELSE store

\* the store after the handler: a raise of lines 403-418 leaves it alone
AnswerEffect(store, sid, res, selected_option_id) ==
    IF res = Ok
    THEN [store EXCEPT ![sid] = Answered(store[sid], selected_option_id)]
    ELSE store

submit_answer(sid, question_id, selected_option_id) ==
    LET arg == [session_id |-> sid, question_id |-> question_id,
                selected_option_id |-> selected_option_id]
        res == SubmitCheck(SESSIONS, sid, question_id)
        res2 == IF res = Ok THEN LookupCheck(SESSIONS[sid]) ELSE res
    IN  /\ SESSIONS' = AnswerEffect(SESSIONS, sid, res2, selected_option_id)
        /\ IF res2 # Ok
           THEN /\ last' = Response("submit_answer", arg, res2, NoOut)
                /\ UNCHANGED written
           ELSE LET session == SESSIONS[sid]
                    q == session.question_map[session.current_index]
                IN  /\ last' = Response("submit_answer", arg, Ok,
                            AnswerOut(SESSIONS'[sid], q, IsCorrect(q, selected_option_id)))
                    /\ written' = [written EXCEPT ![sid] =
                            Append(@, IsCorrect(q, selected_option_id))]
        /\ UNCHANGED <<loaded, inflight>>

----------------------------------------------------------------------------
(* summary (app.py:443-454).                                               *)

\* mutant of Result: an id without an entry reads as correct
ResultDefaultCorrect(session, qid) ==
    IF qid \in DOMAIN session.answers /\ ~session.answers[qid]
    THEN "wrong" ELSE "correct"

\* "correct" if session.answers.get(qid) else "wrong"
Result(session, qid) ==
    IF qid \in DOMAIN session.answers /\ session.answers[qid]
    THEN "correct" ELSE "wrong"

\* mutant of SummaryOut: correct_count is counted from the entries of answers
SummaryOutFromLog(sid, session) ==
    [session_id |-> sid,
     total |-> Len(session.question_ids),
     correct_count |-> Cardinality({k \in DOMAIN session.answers : session.answers[k]}),
     details |-> [i \in 1 .. Len(session.question_ids) |->
                    [question_id |-> <<"str", session.question_ids[i]>>,
                     result |-> Result(session, session.question_ids[i])]]]

\* SummaryOut (app.py:446-454)
SummaryOut(sid, session) ==
    [session_id |-> sid,
     total |-> Len(session.question_ids),
     correct_count |-> session.correct_count,
     details |-> [i \in 1 .. Len(session.question_ids) |->
                    [question_id |-> <<"str", session.question_ids[i]>>,
                     result |-> Result(session, session.question_ids[i])]]]

\* mutant of SummaryCheck: a finished session is refused as in get_question
SummaryCheckFinished(store, sid) ==
    IF sid \notin DOMAIN store THEN SessionNotFound
    ELSE IF store[sid].finished THEN AlreadyFinished
    ELSE Ok

\* the only check of summary: _get_session_or_404 (app.py:445)
SummaryCheck(store, sid) ==
    IF sid \notin DOMAIN store THEN SessionNotFound ELSE Ok

\* summary served with no other call in flight
summary(sid) ==
    LET arg == [session_id |-> sid]
        res == SummaryCheck(SESSIONS, sid)
    IN  /\ last' = Response("summary", arg, res,
                            IF res = Ok THEN SummaryOut(sid, SESSIONS[sid]) ELSE NoOut)
        /\ UNCHANGED <<loaded, SESSIONS, inflight, written>>

----------------------------------------------------------------------------
(* start_quiz of app.py (lines 264-369).                                   *)

\* mutant of StartQuizOut: the last pick is reported as the first question
StartQuizOutLast(sid, chosen_ids) ==
    [session_id |-> sid, total |-> Len(chosen_ids),
     first_question_id |-> chosen_ids[Len(chosen_ids)]]

\* StartQuizOut (app.py:365-369)
StartQuizOut(sid, chosen_ids) ==
    [session_id |-> sid, total |-> Len(chosen_ids), first_question_id |-> chosen_ids[1]]

\* session.question_map[pos] = copy.deepcopy(pre) (app.py:297-307); with a
\* pool whose answers are all non-empty the import-time build completes, so
\* QUESTIONS.get(qid) is never None
\* the questions start_quiz can store for one pick: the copy of the prebuilt
\* question if there is one (lines 302-307), a fresh one otherwise
StartQuestions(prebuilt, raw, K, qid, files) ==
    IF qid \in DOMAIN prebuilt THEN {prebuilt[qid]}
    ELSE FreshQuestions(raw, K, qid, files)

\* every question_map the loop over chosen_ids can build (lines 297-362)
StartQuestionMaps(prebuilt, raw, K, chosen_ids, files) ==
    LET positions == 0 .. Len(chosen_ids) - 1
    IN  {m \in [positions -> UNION {StartQuestions(prebuilt, raw, K, chosen_ids[pos + 1], files) :
                                        pos \in positions}] :
            \A pos \in positions :
                m[pos] \in StartQuestions(prebuilt, raw, K, chosen_ids[pos + 1], files)}

\* correct.split() of line 314 on a pick whose answer is None
Crashes(prebuilt, raw, chosen_ids) ==
    \E i \in 1 .. Len(chosen_ids) :
        chosen_ids[i] \notin DOMAIN prebuilt /\ Answer(raw, chosen_ids[i]) = None

start_quiz(user_id, n_questions, ids) ==
    LET arg == [user_id |-> user_id, n_questions |-> n_questions]
        all_ids == AllIds(RAW_QUESTIONS)
    IN  IF Len(all_ids) = 0
        THEN /\ last' = Response("start_quiz", arg, NoQuestionsConfigured, NoOut)
             /\ UNCHANGED <<loaded, SESSIONS, inflight, written>>
        ELSE \E chosen_ids \in Choices(all_ids, ClampCount(n_questions)) :
             IF Crashes(QUESTIONS, RAW_QUESTIONS, chosen_ids)
             THEN /\ last' = Response("start_quiz", arg, InternalError, NoOut)
                  /\ UNCHANGED <<loaded, SESSIONS, inflight, written>>
             ELSE \E sid \in ids \ DOMAIN SESSIONS :
                  \E question_map \in StartQuestionMaps(QUESTIONS, RAW_QUESTIONS,
                                            default_options, chosen_ids, FILES) :
                    /\ SESSIONS' = Stored(SESSIONS, sid,
                            NewSession(user_id, chosen_ids, question_map))
                    /\ last' = Response("start_quiz", arg, Ok, StartQuizOut(sid, chosen_ids))
                    /\ written' = Stored(written, sid, <<>>)
                    /\ UNCHANGED <<loaded, inflight>>

----------------------------------------------------------------------------
(* submit_answer as the worker threads of the server run it: FastAPI runs  *)
(* a plain "def" endpoint in a thread pool, the interpreter may switch     *)
(* threads between any two bytecodes, and the handler takes no lock.  A    *)
(* step below holds one access to the session object (a read or a write of *)
(* one field) with the computation on locals that surrounds it; an         *)
(* augmented assignment x += 1 is a read and, as a later step, a write.    *)

Idle == [pc |-> "idle"]

\* the locals of a call: its payload, q and is_correct (lines 416-419), the
\* value read by the augmented assignment under way (tmp), and the values
\* of score and index already evaluated for AnswerOut
Call(pc, sid, arg, q, is_correct) ==
    [pc |-> pc, sid |-> sid, arg |-> arg, q |-> q, is_correct |-> is_correct,
     tmp |-> 0, score |-> 0, index |-> 0]

\* the call of thread t ends with the given response
Raised(t, arg, res) ==
    /\ last' = Response("submit_answer", arg, res, NoOut)
    /\ inflight' = [inflight EXCEPT ![t] = Idle]

\* the call of thread t goes on at pc
Goes(t, pc) ==
    /\ inflight' = [inflight EXCEPT ![t].pc = pc]
    /\ UNCHANGED last

\* lines 404-406: the session lookup and the read of session.finished (no
\* statement removes a key of SESSIONS or rebinds one, so the lookup gives
\* the same object wherever it falls before the read)
t_check(t, sid, question_id, selected_option_id) ==
    LET arg == [session_id |-> sid, question_id |-> question_id,
                selected_option_id |-> selected_option_id]
    IN  /\ inflight[t].pc = "idle"
        /\ IF sid \notin DOMAIN SESSIONS THEN Raised(t, arg, SessionNotFound)
           ELSE IF SESSIONS[sid].finished THEN Raised(t, arg, AlreadyFinished)
           ELSE /\ inflight' = [inflight EXCEPT ![t] = Call("range", sid, arg, NoOut, FALSE)]
                /\ UNCHANGED last
        /\ UNCHANGED <<loaded, SESSIONS, written>>

\* lines 409-410: session.current_index is read for the range check
t_range(t) ==
    LET c == inflight[t]
    IN  /\ c.pc = "range"
        /\ IF ~InRange(SESSIONS[c.sid].current_index, SESSIONS[c.sid])
           THEN Raised(t, c.arg, [status |-> 400, detail |-> "Invalid session index"])
           ELSE Goes(t, "expect")
        /\ UNCHANGED <<loaded, SESSIONS, written>>

\* lines 411-413: session.current_index is read again to index question_ids;
\* past the end of the list the subscript raises IndexError
t_expect(t) ==
    LET c == inflight[t]
        session == SESSIONS[c.sid]
    IN  /\ c.pc = "expect"
        /\ IF session.current_index >= Len(session.question_ids)
           THEN Raised(t, c.arg, InternalError)
           ELSE IF OrderMismatch(session, c.arg.question_id)
           THEN Raised(t, c.arg, [status |-> 400, detail |-> "Question order mismatch"])
           ELSE Goes(t, "lookup")
        /\ UNCHANGED <<loaded, SESSIONS, written>>

\* lines 416-419: q, from a third read of session.current_index, and
\* is_correct
t_lookup(t) ==
    LET c == inflight[t]
        session == SESSIONS[c.sid]
        res == LookupCheck(session)
    IN  /\ c.pc = "lookup"
        /\ IF res # Ok
           THEN Raised(t, c.arg, res)
           ELSE LET q == session.question_map[session.current_index]
                IN  /\ inflight' = [inflight EXCEPT ![t] =
                            Call("record", c.sid, c.arg, q,
                                 IsCorrect(q, c.arg.selected_option_id))]
                    /\ UNCHANGED last
        /\ UNCHANGED <<loaded, SESSIONS, written>>

\* mutant of Mutated: the sessions of the store are one shared object
MutatedShared(store, sid, session) == [k \in DOMAIN store |-> session]

\* an assignment to a field of the session object that SESSIONS[sid] holds
Mutated(store, sid, session) == [store EXCEPT ![sid] = session]

\* line 420: session.answers[q.id] = is_correct, and the test of line 421
t_record(t) ==
    LET c == inflight[t]
    IN  /\ c.pc = "record"
        /\ SESSIONS' = Mutated(SESSIONS, c.sid, Recorded(SESSIONS[c.sid], c.q, c.is_correct))
        /\ written' = [written EXCEPT ![c.sid] = Append(@, c.is_correct)]
        /\ Goes(t, IF c.is_correct THEN "score_read" ELSE "advance_read")
        /\ UNCHANGED loaded

\* the read of an augmented assignment: session.correct_count (line 422) or
\* session.current_index (line 425)
t_read(t) ==
    LET c == inflight[t]
        session == SESSIONS[c.sid]
    IN  /\ c.pc \in {"score_read", "advance_read"}
        /\ inflight' = [inflight EXCEPT
                ![t].tmp = IF c.pc = "score_read" THEN session.correct_count
                           ELSE session.current_index,
                ![t].pc = IF c.pc = "score_read" THEN "score_write" ELSE "advance_write"]
        /\ UNCHANGED <<loaded, SESSIONS, last, written>>

\* its write: the value read, plus one
t_write(t) ==
    LET c == inflight[t]
        session == SESSIONS[c.sid]
    IN  /\ c.pc \in {"score_write", "advance_write"}
        /\ SESSIONS' = Mutated(SESSIONS, c.sid,
                IF c.pc = "score_write"
                THEN [session EXCEPT !.correct_count = c.tmp + 1]
                ELSE [session EXCEPT !.current_index = c.tmp + 1])
        /\ inflight' = [inflight EXCEPT
                ![t].tmp = 0,
                ![t].pc = IF c.pc = "score_write" THEN "advance_read" ELSE "finish"]
        /\ UNCHANGED <<loaded, last, written>>

\* line 426: session.current_index is read for the test
t_finish(t) ==
    LET c == inflight[t]
        session == SESSIONS[c.sid]
    IN  /\ c.pc = "finish"
        /\ Goes(t, IF session.current_index >= Len(session.question_ids)
                   THEN "finish_write" ELSE "respond_score")
        /\ UNCHANGED <<loaded, SESSIONS, written>>

\* line 427: session.finished = True
t_finished(t) ==
    LET c == inflight[t]
    IN  /\ c.pc = "finish_write"
        /\ SESSIONS' = Mutated(SESSIONS, c.sid, [SESSIONS[c.sid] EXCEPT !.finished = TRUE])
        /\ Goes(t, "respond_score")
        /\ UNCHANGED <<loaded, written>>

\* lines 436 and 437: the arguments score and index of AnswerOut are
\* evaluated one after the other
t_evaluate(t) ==
    LET c == inflight[t]
        session == SESSIONS[c.sid]
    IN  /\ c.pc \in {"respond_score", "respond_index"}
        /\ inflight' = [inflight EXCEPT
                ![t].score = IF c.pc = "respond_score" THEN session.correct_count ELSE @,
                ![t].index = IF c.pc = "respond_index" THEN session.current_index ELSE @,
                ![t].pc = IF c.pc = "respond_score" THEN "respond_index" ELSE "respond"]
        /\ UNCHANGED <<loaded, SESSIONS, last, written>>

\* lines 439-440: session.finished is read and the response is returned
t_respond(t) ==
    LET c == inflight[t]
        seen == [SESSIONS[c.sid] EXCEPT !.correct_count = c.score,
                                        !.current_index = c.index]
    IN  /\ c.pc = "respond"
        /\ last' = Response("submit_answer", c.arg, Ok, AnswerOut(seen, c.q, c.is_correct))
        /\ inflight' = [inflight EXCEPT ![t] = Idle]
        /\ UNCHANGED <<loaded, SESSIONS, written>>

\* the steps of the calls in flight
Steps ==
    \/ \E t \in Threads : t_range(t)
    \/ \E t \in Threads : t_expect(t)
    \/ \E t \in Threads : t_lookup(t)
    \/ \E t \in Threads : t_record(t)
    \/ \E t \in Threads : t_read(t)
    \/ \E t \in Threads : t_write(t)
    \/ \E t \in Threads : t_finish(t)
    \/ \E t \in Threads : t_finished(t)
    \/ \E t \in Threads : t_evaluate(t)
    \/ \E t \in Threads : t_respond(t)

----------------------------------------------------------------------------
(* summary as a worker thread runs it (app.py:444-454): the arguments of   *)
(* SummaryOut are evaluated in order, session.correct_count at line 449    *)
(* and then session.answers once per pass of the comprehension of lines    *)
(* 450-453, with no lock; question_ids is never written after start_quiz.  *)

\* the locals of a summary call: the value read for correct_count and the
\* results of the passes already made
SummaryCall(pc, sid, score, results) ==
    [pc |-> pc, sid |-> sid, score |-> score, results |-> results]

\* SummaryOut (app.py:446-454) from the values the call has read
SummaryOutSeen(sid, question_ids, score, results) ==
    [session_id |-> sid,
     total |-> Len(question_ids),
     correct_count |-> score,
     details |-> [i \in 1 .. Len(question_ids) |->
                    [question_id |-> <<"str", question_ids[i]>>,
                     result |-> results[i]]]]

\* line 445: the session lookup
s_check(t, sid) ==
    LET arg == [session_id |-> sid]
        res == SummaryCheck(SESSIONS, sid)
    IN  /\ inflight[t].pc = "idle"
        /\ IF res # Ok
           THEN /\ last' = Response("summary", arg, res, NoOut)
                /\ UNCHANGED inflight
           ELSE /\ inflight' = [inflight EXCEPT
                                    ![t] = SummaryCall("sum_count", sid, 0, <<>>)]
                /\ UNCHANGED last
        /\ UNCHANGED <<loaded, SESSIONS, written>>

\* line 449: session.correct_count is read
s_count(t) ==
    LET c == inflight[t]
    IN  /\ c.pc = "sum_count"
        /\ inflight' = [inflight EXCEPT ![t].score = SESSIONS[c.sid].correct_count,
                                        ![t].pc = "sum_detail"]
        /\ UNCHANGED <<loaded, SESSIONS, last, written>>

\* lines 450-453: one pass of the comprehension reads session.answers for
\* the id of the next position; after the last pass SummaryOut is returned
s_detail(t) ==
    LET c == inflight[t]
        session == SESSIONS[c.sid]
        qid == session.question_ids[Len(c.results) + 1]
        results == Append(c.results, Result(session, qid))
    IN  /\ c.pc = "sum_detail"
        /\ IF Len(results) < Len(session.question_ids)
           THEN /\ inflight' = [inflight EXCEPT ![t].results = results]
                /\ UNCHANGED last
           ELSE /\ last' = Response("summary", [session_id |-> c.sid], Ok,
                                    SummaryOutSeen(c.sid, session.question_ids,
                                                   c.score, results))
                /\ inflight' = [inflight EXCEPT ![t] = Idle]
        /\ UNCHANGED <<loaded, SESSIONS, written>>

----------------------------------------------------------------------------
(* Specifications.                                                         *)

NoRequest == [op |-> "none", arg |-> <<>>, status |-> 0, detail |-> "", out |-> NoOut]

\* the state after the import of app.py, for a data file of the given size
InitWith(maxPool, Ks) ==
    /\ RAW_QUESTIONS \in Pools(maxPool)
    /\ default_options \in Ks
    /\ QUESTIONS \in PrebuiltQuestions(RAW_QUESTIONS, default_options)
    /\ FILES = {}
    /\ static_root = "audio"
    /\ SESSIONS = NoSessions
    /\ last = NoRequest
    /\ inflight = [t \in Threads |-> Idle]
    /\ written = NoSessions

\* the inputs of the requests
CountInputs(maxCount) == -1 .. maxCount

IndexInputs(maxCount) == -1 .. maxCount

QidInputs == Range(AllIds(RAW_QUESTIONS)) \cup {WrongQid}

SlotInputs == 0 .. default_options + 1

Requests(users, ids, maxCount) ==
    \/ \E u \in users, n \in CountInputs(maxCount) : start_quiz(u, n, ids)
    \/ \E sid \in ids \cup {NoSuchSession}, index \in IndexInputs(maxCount) :
            get_question(sid, index)
    \/ \E sid \in ids \cup {NoSuchSession}, qid \in QidInputs, slot \in SlotInputs :
            submit_answer(sid, qid, slot)
    \/ \E sid \in ids \cup {NoSuchSession} : summary(sid)

Init == InitWith(MaxPool, OptionCounts)

Next == Requests(Users, SessionIds, MaxCount)

Spec == Init /\ [][Next]_vars

InitMulti == InitWith(1, MultiOptionCounts)

NextMulti == Requests(MultiUsers, MultiSessionIds, MultiMaxCount)

SpecMulti == InitMulti /\ [][NextMulti]_vars

\* the data files of SpecGen: the catalog's first questions (the second and
\* the third share the base "Belge"), or three questions of distinct bases
GenPools == Pools(GenMaxPool) \cup {<<Catalog[1], Catalog[2], Catalog[4]>>}

InitGen ==
    /\ RAW_QUESTIONS \in GenPools
    /\ default_options \in 1 .. GenMaxK
    /\ QUESTIONS \in PrebuiltQuestions(RAW_QUESTIONS, default_options)
    /\ FILES = {}
    /\ static_root = "audio"
    /\ SESSIONS = NoSessions
    /\ last = NoRequest
    /\ inflight = [t \in Threads |-> Idle]
    /\ written = NoSessions

NextGen ==
    \/ \E u \in Users : start_quiz(u, 1, SessionIds)
    \/ \E sid \in SessionIds, index \in IndexInputs(1) : get_question(sid, index)
    \/ \E sid \in SessionIds, qid \in QidInputs, slot \in SlotInputs :
            submit_answer(sid, qid, slot)

SpecGen == InitGen /\ [][NextGen]_vars

InitConc == InitWith(1, OptionCounts)

NextConc ==
    \/ \E u \in Users, n \in 1 .. ConcMaxCount : start_quiz(u, n, SessionIds)
    \/ \E t \in Threads, sid \in SessionIds, qid \in QidInputs, slot \in SlotInputs :
            t_check(t, sid, qid, slot)
    \/ Steps

SpecConc == InitConc /\ [][NextConc]_vars

\* the files the audio directory may hold, and the references resolved
AudioFiles ==
    { <<"q", "1", ".mp3">>, <<"q", "1", "_country", ".mp3">>,
      <<"q", "1", "_answer", ".mp3">>, <<"q", "1", "_opt", "1", ".mp3">> }

AudioRoots == {"audio", "static"}

AudioRefs ==
    { None, <<"">>, <<"audio/">>,
      <<"audio/", "q", "1", ".mp3">>, <<"audio/", "q", "1">>,
      <<"audio/", "fr/", "q", "1", ".mp3">>, <<"audio/", "q", "2", ".mp3">>,
      <<"https://cdn/", "q", "4", ".mp3">>, <<"q", "1", ".mp3">> }

\* an entry of questions.json that has no "answer"
Unanswered == [id |-> 6, answer |-> None, country |-> <<"Utopie">>, audio |-> None]

\* the data files of SpecAudio: the catalog's first questions, or the
\* unanswered entry followed by question 1 (the import-time build then
\* stops at the first entry and start_quiz generates question 1 itself)
AudioPools == Pools(AudioMaxPool) \cup {<<Unanswered, Catalog[1]>>}

\* one call of _audio_url (app.py:60-95)
resolve(path) ==
    /\ last' = Response("resolve", [path |-> path], Ok, [url |-> AudioUrl(path)])
    /\ UNCHANGED <<loaded, SESSIONS, inflight, written>>

InitAudio ==
    /\ RAW_QUESTIONS \in AudioPools
    /\ default_options \in OptionCounts
    /\ QUESTIONS \in PrebuiltQuestions(RAW_QUESTIONS, default_options)
    /\ FILES \in SUBSET AudioFiles
    /\ static_root \in AudioRoots
    /\ SESSIONS = NoSessions
    /\ last = NoRequest
    /\ inflight = [t \in Threads |-> Idle]
    /\ written = NoSessions

NextAudio ==
    \/ \E u \in Users : start_quiz(u, 1, SessionIds)
    \/ \E sid \in SessionIds, index \in IndexInputs(1) : get_question(sid, index)
    \/ \E sid \in SessionIds, qid \in QidInputs, slot \in SlotInputs :
            submit_answer(sid, qid, slot)
    \/ \E path \in AudioRefs : resolve(path)

SpecAudio == InitAudio /\ [][NextAudio]_vars

\* the catalog's first questions with the unanswered entry among them
FreshPools ==
    { SubSeq(Catalog, 1, p - 1) \o <<Unanswered>> \o SubSeq(Catalog, p, n)
        : <<n, p>> \in {np \in (1 .. FreshMaxPool) \X (1 .. FreshMaxPool + 1) :
                            np[2] <= np[1] + 1} }

\* the option files the audio directory may hold
FreshFiles ==
    { <<"q", "2", "_opt", "1", ".mp3">>, <<"q", "2", "_opt", "1", ".ogg">>,
      <<"q", "2", "_opt", "2", ".ogg">> }

InitFresh ==
    /\ RAW_QUESTIONS \in FreshPools
    /\ default_options \in OptionCounts
    /\ QUESTIONS \in PrebuiltQuestions(RAW_QUESTIONS, default_options)
    /\ FILES \in SUBSET FreshFiles
    /\ static_root = "audio"
    /\ SESSIONS = NoSessions
    /\ last = NoRequest
    /\ inflight = [t \in Threads |-> Idle]
    /\ written = NoSessions

NextFresh ==
    \/ \E u \in Users, n \in 1 .. FreshMaxCount : start_quiz(u, n, SessionIds)
    \/ \E sid \in SessionIds, index \in IndexInputs(FreshMaxCount) :
            get_question(sid, index)
    \/ \E sid \in SessionIds, qid \in QidInputs, slot \in SlotInputs :
            submit_answer(sid, qid, slot)

SpecFresh == InitFresh /\ [][NextFresh]_vars

----------------------------------------------------------------------------
(* The quiz handlers of the chat bot (bot/handlers/quiz.py).  The module   *)
(* has a SESSIONS dictionary of its own, keyed by user id; a handler keeps *)
(* the dictionary object it fetched across its awaits, also after the key  *)
(* was deleted or rebound, so SESSIONS is held here as refs, the object    *)
(* each user id is bound to (0 for no key), and objs, the session objects  *)
(* created so far.  The handlers are coroutines of one event loop: they    *)
(* interleave at their awaits only, so a step runs a handler from one      *)
(* await to the next one that is followed by an access to SESSIONS or to a *)
(* session (awaits that follow one another with no such access between     *)
(* them are one suspension).  inflight holds the position and the locals   *)
(* of each handler, last the message sent last.                            *)

BotUsers == {"u1"}

\* the texts of the buttons
BotOptions == {"A", "B"}

\* the questions fetched from the backend (quiz.py:40-46); audio_url is ""
\* for a question without the key (q.get("audio_url") is None)
BotQuestions(n, audio) ==
    [i \in 1 .. n |-> [answer |-> "A", options |-> BotOptions,
                       audio_url |-> IF audio THEN "url" ELSE ""]]

\* what fetch_quiz_questions can give: an exception (-1), an empty list, or
\* a list of questions
FetchOutcomes == -1 .. BotMaxQuestions

\* the dictionary of lines 53-58
NewBotSession(questions) ==
    [questions |-> questions, current |-> 0, correct |-> 0, answers |-> <<>>]

BotNoSessions == [refs |-> [u \in BotUsers |-> 0], objs |-> <<>>]

\* the last call of the Telegram API a handler has made
BotMessage(op, arg, text, out) ==
    [op |-> op, arg |-> arg, status |-> 0, detail |-> text, out |-> out]

\* the locals of a handler: user_id, the session object it holds, and idx
BotTask(pc, u, obj, idx) == [pc |-> pc, user |-> u, obj |-> obj, idx |-> idx]

\* start_quiz from line 33 to the await of line 40; the callback
\* "quiz:restart" comes to the same point through lines 100-104
b_start(t, u) ==
    /\ inflight[t].pc = "idle"
    /\ Len(SESSIONS.objs) < BotMaxStarts
    /\ inflight' = [inflight EXCEPT ![t] = BotTask("fetch", u, 0, 0)]
    /\ UNCHANGED <<loaded, SESSIONS, last, written>>

\* lines 41-60, from the end of the fetch to the next await: the two early
\* returns, or the new session bound to the user id
b_fetched(t, n, audio) ==
    LET c == inflight[t]
        arg == [user_id |-> c.user]
    IN  /\ c.pc = "fetch"
        /\ IF n = -1
           THEN /\ last' = BotMessage("start_quiz", arg, "fetch failed", NoOut)
                /\ inflight' = [inflight EXCEPT ![t] = Idle]
                /\ UNCHANGED SESSIONS
           ELSE IF n = 0
           THEN /\ last' = BotMessage("start_quiz", arg, "no questions", NoOut)
                /\ inflight' = [inflight EXCEPT ![t] = Idle]
                /\ UNCHANGED SESSIONS
           ELSE /\ Len(SESSIONS.objs) < BotMaxStarts
                /\ SESSIONS' =
                      [refs |-> [SESSIONS.refs EXCEPT ![c.user] = Len(SESSIONS.objs) + 1],
                       objs |-> Append(SESSIONS.objs,
                                      NewBotSession(BotQuestions(n, audio)))]
                /\ inflight' = [inflight EXCEPT ![t].pc = "state"]
                /\ UNCHANGED last
        /\ UNCHANGED <<loaded, written>>

\* send_summary from line 159 to the await of line 167
SendSummary(t) ==
    LET c == inflight[t]
        oid == SESSIONS.refs[c.user]
    IN  IF oid = 0
        THEN /\ inflight' = [inflight EXCEPT ![t] = Idle]
             /\ UNCHANGED last
        ELSE /\ inflight' = [inflight EXCEPT ![t].pc = "summary"]
             /\ last' = BotMessage("send_summary", [user_id |-> c.user], "summary",
                            [correct |-> SESSIONS.objs[oid].correct,
                             total |-> Len(SESSIONS.objs[oid].questions)])

\* send_question from line 65 to its first await: bot.send_audio (line 80)
\* for a question with an audio_url, bot.send_message with the country
\* (line 85) for one without, or the await of send_summary
SendQuestion(t) ==
    LET c == inflight[t]
        oid == SESSIONS.refs[c.user]
    IN  IF oid = 0
        THEN /\ inflight' = [inflight EXCEPT ![t] = Idle]
             /\ UNCHANGED last
        ELSE IF SESSIONS.objs[oid].current >= Len(SESSIONS.objs[oid].questions)
        THEN SendSummary(t)
        ELSE LET idx == SESSIONS.objs[oid].current
                 q == SESSIONS.objs[oid].questions[idx + 1]
             IN  /\ inflight' = [inflight EXCEPT
                        ![t].pc = IF q.audio_url # "" THEN "audio" ELSE "ask",
                        ![t].idx = idx]
                 /\ last' = BotMessage("send_question", [user_id |-> c.user],
                                IF q.audio_url # "" THEN "audio" ELSE "country",
                                [idx |-> idx])

\* start_quiz after the await of line 60: line 61
b_first(t) ==
    /\ inflight[t].pc = "state"
    /\ SendQuestion(t)
    /\ UNCHANGED <<loaded, SESSIONS, written>>

\* send_question after the await of line 80: when send_audio has raised,
\* the except branch sends the text "[audio unavailable] <country>" and
\* suspends again (lines 81-83); otherwise lines 88-94 follow at once
b_audio(t, ok) ==
    /\ inflight[t].pc = "audio"
    /\ IF ok
       THEN /\ last' = BotMessage("send_question", [user_id |-> inflight[t].user],
                            "question", [idx |-> inflight[t].idx])
            /\ inflight' = [inflight EXCEPT ![t] = Idle]
       ELSE /\ last' = BotMessage("send_question", [user_id |-> inflight[t].user],
                            "audio unavailable", [idx |-> inflight[t].idx])
            /\ inflight' = [inflight EXCEPT ![t].pc = "ask"]
    /\ UNCHANGED <<loaded, SESSIONS, written>>

\* send_question after the await of line 83 or 85: lines 88-94, the
\* question with its buttons, for the idx read at line 68
b_question(t) ==
    /\ inflight[t].pc = "ask"
    /\ last' = BotMessage("send_question", [user_id |-> inflight[t].user], "question",
                    [idx |-> inflight[t].idx])
    /\ inflight' = [inflight EXCEPT ![t] = Idle]
    /\ UNCHANGED <<loaded, SESSIONS, written>>

\* lines 107-116: callback data that does not split into three parts, or
\* whose index is not a number
b_malformed(t, u, data) ==
    /\ inflight[t].pc = "idle"
    /\ last' = BotMessage("handle_answer", [user_id |-> u, data |-> data],
                    IF data = "quiz:0" THEN "wrong answer" ELSE "wrong data", NoOut)
    /\ UNCHANGED <<loaded, SESSIONS, inflight, written>>

\* lines 129-137: the answer is appended and counted
BotRecord(session, idx, chosen) ==
    LET correct == session.questions[idx + 1].answer
        is_correct == chosen = correct
    IN  [session EXCEPT
            !.answers = Append(@, [idx |-> idx, chosen |-> chosen,
                                   correct |-> correct, ok |-> is_correct]),
            !.correct = IF is_correct THEN @ + 1 ELSE @]

\* handle_answer for the data "quiz:<idx>:<opt>", from line 98 to its first
\* await (line 121, 126, or 141/143) or to the IndexError of line 129
b_receive(t, u, idx, opt) ==
    LET oid == SESSIONS.refs[u]
        arg == [user_id |-> u, idx |-> idx, opt |-> opt]
    IN  /\ inflight[t].pc = "idle"
        /\ IF oid = 0
           THEN /\ last' = BotMessage("handle_answer", arg, "no session", NoOut)
                /\ UNCHANGED <<SESSIONS, inflight>>
           ELSE IF idx # SESSIONS.objs[oid].current
           THEN /\ last' = BotMessage("handle_answer", arg, "not current", NoOut)
                /\ UNCHANGED <<SESSIONS, inflight>>
           ELSE IF idx >= Len(SESSIONS.objs[oid].questions)
           THEN /\ last' = BotMessage("handle_answer", arg, "IndexError", NoOut)
                /\ UNCHANGED <<SESSIONS, inflight>>
           ELSE /\ SESSIONS' = [SESSIONS EXCEPT !.objs[oid] = BotRecord(@, idx, opt)]
                /\ inflight' = [inflight EXCEPT ![t] = BotTask("feedback", u, oid, idx)]
                /\ last' = BotMessage("handle_answer", arg, "feedback",
                        [ok |-> opt = SESSIONS.objs[oid].questions[idx + 1].answer])
        /\ UNCHANGED <<loaded, written>>

\* line 146, on the session object fetched at line 119, up to the awaits of
\* lines 147 and 150
b_advance(t) ==
    /\ inflight[t].pc = "feedback"
    /\ SESSIONS' = [SESSIONS EXCEPT !.objs[inflight[t].obj].current = @ + 1]
    /\ inflight' = [inflight EXCEPT ![t].pc = "pause"]
    /\ UNCHANGED <<loaded, last, written>>

\* lines 152-155: the test on the session object fetched at line 119, then
\* send_question or send_summary, which look the user id up again
b_next(t) ==
    LET session == SESSIONS.objs[inflight[t].obj]
    IN  /\ inflight[t].pc = "pause"
        /\ IF session.current < Len(session.questions)
           THEN SendQuestion(t)
           ELSE SendSummary(t)
        /\ UNCHANGED <<loaded, SESSIONS, written>>

\* send_summary after the await of line 167: del SESSIONS[user_id] (line
\* 170), which raises KeyError when the key is gone
b_clear(t) ==
    LET c == inflight[t]
    IN  /\ c.pc = "summary"
        /\ SESSIONS' = [SESSIONS EXCEPT !.refs[c.user] = 0]
        /\ last' = IF SESSIONS.refs[c.user] = 0
                   THEN BotMessage("send_summary", [user_id |-> c.user], "KeyError", NoOut)
                   ELSE last
        /\ inflight' = [inflight EXCEPT ![t] = Idle]
        /\ UNCHANGED <<loaded, written>>

InitBot ==
    /\ RAW_QUESTIONS = <<>>
    /\ default_options = 1
    /\ QUESTIONS = <<>>
    /\ FILES = {}
    /\ static_root = "audio"
    /\ SESSIONS = BotNoSessions
    /\ last = NoRequest
    /\ inflight = [t \in Threads |-> Idle]
    /\ written = NoSessions

NextBot ==
    \/ \E t \in Threads, u \in BotUsers : b_start(t, u)
    \/ \E t \in Threads, n \in FetchOutcomes, audio \in BOOLEAN : b_fetched(t, n, audio)
    \/ \E t \in Threads : b_first(t)
    \/ \E t \in Threads, ok \in BOOLEAN : b_audio(t, ok)
    \/ \E t \in Threads : b_question(t)
    \/ \E t \in Threads, u \in BotUsers, data \in {"quiz:0", "quiz:x:A"} :
            b_malformed(t, u, data)
    \/ \E t \in Threads, u \in BotUsers, idx \in 0 .. BotMaxQuestions,
           opt \in BotOptions : b_receive(t, u, idx, opt)
    \/ \E t \in Threads : b_advance(t)
    \/ \E t \in Threads : b_next(t)
    \/ \E t \in Threads : b_clear(t)

SpecBot == InitBot /\ [][NextBot]_vars

\* two worker threads, each serving the submit_answer calls of one session
\* and summary calls of either session, next to start_quiz and get_question
\* requests for either session (get_question reads one field that is ever
\* written after start_quiz, session.finished at line 375, and start_quiz
\* stores the finished session object with one assignment at line 364)
SessionOf(t) == IF t = "t1" THEN "s1" ELSE "s2"

InitCross == InitWith(CrossMaxPool, MultiOptionCounts)

NextCross ==
    \/ \E u \in Users, n \in 1 .. CrossMaxCount :
            start_quiz(u, n, MultiSessionIds)
    \/ \E t \in Threads, qid \in QidInputs, slot \in SlotInputs :
            t_check(t, SessionOf(t), qid, slot)
    \/ Steps
    \/ \E sid \in MultiSessionIds, index \in {0, CrossMaxCount} :
            get_question(sid, index)
    \/ \E t \in Threads, sid \in MultiSessionIds : s_check(t, sid)
    \/ \E t \in Threads : s_count(t)
    \/ \E t \in Threads : s_detail(t)

SpecCross == InitCross /\ [][NextCross]_vars

----------------------------------------------------------------------------
(* Properties.                                                             *)

\* the session a request names, before the request
Target == SESSIONS[last'.arg.session_id]

OnStoredSession(op) ==
    /\ last'.op = op
    /\ last'.arg.session_id \in DOMAIN SESSIONS

\* C1: submit_answer on an active session is accepted exactly when the
\* submitted question id is the one at picks[currentPosition]; any other id,
\* also one that occurs elsewhere in picks, is rejected with "Question order
\* mismatch", leaves the session as it was, and the expected id is still
\* acceptable for the same position afterwards.
C1_InOrderOnly ==
    [][ (OnStoredSession("submit_answer") /\ ~Target.finished) =>
          LET sid == last'.arg.session_id
              expected == Target.question_ids[Target.current_index + 1]
              after == SESSIONS'[sid]
          IN  /\ last'.status = 200 <=> last'.arg.question_id = expected
              /\ last'.arg.question_id # expected =>
                    /\ last'.status = 400
                    /\ last'.detail = "Question order mismatch"
                    /\ after.current_index = Target.current_index
                    /\ after.correct_count = Target.correct_count
                    /\ after = Target
                    /\ ~after.finished
                    /\ after.question_ids[after.current_index + 1] = expected
                    /\ after.current_index \in DOMAIN after.question_map
      ]_vars

\* C1 witness: a submission for an id that occurs in picks, but not at the
\* current position, has been rejected and the session is still at position 1
C1_Witness ==
    /\ last.op = "submit_answer"
    /\ last.detail = "Question order mismatch"
    /\ last.arg.session_id \in DOMAIN SESSIONS
    /\ LET s == SESSIONS[last.arg.session_id]
       IN  /\ s.current_index = 1
           /\ last.arg.question_id = s.question_ids[1]
           /\ last.arg.question_id # s.question_ids[2]

\* C2: whatever the interleaving of the submit_answer calls in flight on a
\* session, the session's current_index never exceeds len(picks) and its
\* score never exceeds the number of its positions (each position is
\* answered, and scored, at most once).
C2_OneAnswerPerPosition ==
    \A sid \in DOMAIN SESSIONS :
        /\ SESSIONS[sid].current_index <= Len(SESSIONS[sid].question_ids)
        /\ SESSIONS[sid].correct_count <= Len(SESSIONS[sid].question_ids)

\* C3: on a finished session every get_question and every submit_answer is
\* answered 400 "Quiz already finished", whatever the position, question id
\* and slot, and the store is left as it was.
C3_FinishedRejectsAll ==
    [][ ((OnStoredSession("get_question") \/ OnStoredSession("submit_answer"))
         /\ Target.finished) =>
          /\ last'.status = 400
          /\ last'.detail = "Quiz already finished"
          /\ SESSIONS' = SESSIONS
      ]_vars

\* C3 witness: an out-of-range get_question on a finished session has been
\* answered "Quiz already finished"
C3_Witness ==
    /\ last.op = "get_question"
    /\ last.detail = "Quiz already finished"
    /\ last.arg.index = -1
    /\ SESSIONS[last.arg.session_id].finished

\* C4: a finished session stays finished through every later request on any
\* session; a session becomes finished only by an accepted submit_answer on
\* it that answers its last position, and every such submission finishes it;
\* a session is never finished when it is created.
C4_FinishedIsTerminal ==
    [][ /\ \A sid \in DOMAIN SESSIONS :
              /\ sid \in DOMAIN SESSIONS'
              /\ SESSIONS[sid].finished => SESSIONS'[sid].finished
              /\ (~SESSIONS[sid].finished /\ SESSIONS'[sid].finished) =>
                    /\ last'.op = "submit_answer"
                    /\ last'.status = 200
                    /\ last'.arg.session_id = sid
                    /\ SESSIONS[sid].current_index
                          = Len(SESSIONS[sid].question_ids) - 1
              /\ (/\ last'.op = "submit_answer"
                  /\ last'.status = 200
                  /\ last'.arg.session_id = sid) =>
                    (SESSIONS'[sid].finished <=>
                        SESSIONS[sid].current_index
                            = Len(SESSIONS[sid].question_ids) - 1)
        /\ \A sid \in DOMAIN SESSIONS' \ DOMAIN SESSIONS : ~SESSIONS'[sid].finished
      ]_vars

\* C4 witness: one session is finished, and after that another session was
\* started and has accepted an answer without finishing
C4_Witness ==
    /\ last.op = "submit_answer"
    /\ last.status = 200
    /\ ~last.out.finished
    /\ \E sid \in DOMAIN SESSIONS :
          sid # last.arg.session_id /\ SESSIONS[sid].finished

\* C5: with a non-empty pool, start_quiz for a requested count n >= 1 answers
\* 200 and stores a session with exactly n picks, each an id of the pool;
\* total is n, first_question_id is picks[0], and get_question at position 0
\* returns that id.
C5_StartPicks ==
    /\ (last.op = "start_quiz" /\ last.arg.n_questions >= 1 /\ Len(RAW_QUESTIONS) > 0) =>
          /\ last.status = 200
          /\ last.out.session_id \in DOMAIN SESSIONS
          /\ LET s == SESSIONS[last.out.session_id]
             IN  /\ Len(s.question_ids) = last.arg.n_questions
                 /\ Range(s.question_ids) \subseteq Range(AllIds(RAW_QUESTIONS))
                 /\ last.out.total = Len(s.question_ids)
                 /\ last.out.first_question_id = s.question_ids[1]
                 /\ s.question_map[0].id = last.out.first_question_id
    /\ (last.op = "get_question" /\ last.status = 200 /\ last.arg.index = 0) =>
          last.out.question_id = SESSIONS[last.arg.session_id].question_ids[1]

\* C5 witness: a session of two picks has been started
C5_Witness ==
    /\ last.op = "start_quiz"
    /\ last.status = 200
    /\ last.arg.n_questions = 2
    /\ SESSIONS[last.out.session_id].question_ids[1]
          # SESSIONS[last.out.session_id].question_ids[2]

\* C6: with a non-empty pool, start_quiz for a requested count n <= 0 stores
\* a session of exactly one pick, and for n >= 1 it stores n picks: the count
\* is not capped from above.
C6_CountClamped ==
    (last.op = "start_quiz" /\ Len(RAW_QUESTIONS) > 0) =>
        /\ last.status = 200
        /\ LET n == Len(SESSIONS[last.out.session_id].question_ids)
           IN  /\ last.arg.n_questions <= 0 => (n = 1 /\ last.out.total = 1)
               /\ last.arg.n_questions >= 1 => n = last.arg.n_questions

\* C6 witness: a session has been started for a requested count of -1
C6_Witness ==
    /\ last.op = "start_quiz"
    /\ last.status = 200
    /\ last.arg.n_questions = -1

\* C7: with an empty pool every start_quiz is answered 500 "No questions
\* configured on the server" and the store stays as it was, so that it never
\* holds a session.
C7_EmptyPoolFails ==
    /\ [](Len(RAW_QUESTIONS) = 0 =>
            /\ SESSIONS = NoSessions
            /\ last.op = "start_quiz" =>
                  /\ last.status = 500
                  /\ last.detail = "No questions configured on the server")
    /\ [][ (last'.op = "start_quiz" /\ last'.status # 200) => SESSIONS' = SESSIONS ]_vars

\* C7 witness: start_quiz of a second user for two questions has failed on
\* an empty pool
C7_Witness ==
    /\ Len(RAW_QUESTIONS) = 0
    /\ last.op = "start_quiz"
    /\ last.status = 500
    /\ last.arg.user_id = "u2"
    /\ last.arg.n_questions = 2

\* C8: a step never removes a session from the store; a session enters the
\* store only by a successful start_quiz, under the id the response names,
\* which was not in the store before, and it enters at position 0 with
\* score 0, not finished and with no answer recorded.
C8_FreshSessions ==
    [][ /\ DOMAIN SESSIONS \subseteq DOMAIN SESSIONS'
        /\ \A sid \in DOMAIN SESSIONS' \ DOMAIN SESSIONS :
              /\ last'.op = "start_quiz"
              /\ last'.status = 200
              /\ last'.out.session_id = sid
              /\ SESSIONS'[sid].current_index = 0
              /\ SESSIONS'[sid].correct_count = 0
              /\ ~SESSIONS'[sid].finished
              /\ DOMAIN SESSIONS'[sid].answers = {}
        /\ (last'.op = "start_quiz" /\ last'.status = 200) =>
              /\ last'.out.session_id \notin DOMAIN SESSIONS
              /\ last'.out.session_id \in DOMAIN SESSIONS'
              /\ \A sid \in DOMAIN SESSIONS : SESSIONS'[sid] = SESSIONS[sid]
      ]_vars

\* C8 witness: a second session has been started next to one that has
\* already advanced
C8_Witness ==
    /\ last.op = "start_quiz"
    /\ last.status = 200
    /\ \E sid \in DOMAIN SESSIONS :
          sid # last.out.session_id /\ SESSIONS[sid].current_index > 0

\* exactly one option of q carries the slot number correct_option_id, and
\* its text is the given answer
OneCorrectOption(q, answer) ==
    /\ Cardinality({i \in 1 .. Len(q.options) :
                        q.options[i].id = q.correct_option_id}) = 1
    /\ \A i \in 1 .. Len(q.options) :
          q.options[i].id = q.correct_option_id => q.options[i].text = answer

\* C9: in every question of every session, and in every prebuilt question,
\* exactly one option has the slot number correct_option_id, and its text is
\* the answer of the question picked at that position.
C9_OneCorrectOption ==
    /\ \A sid \in DOMAIN SESSIONS :
          \A pos \in DOMAIN SESSIONS[sid].question_map :
              OneCorrectOption(SESSIONS[sid].question_map[pos],
                  Answer(RAW_QUESTIONS, SESSIONS[sid].question_ids[pos + 1]))
    /\ \A qid \in DOMAIN QUESTIONS :
          OneCorrectOption(QUESTIONS[qid], Answer(RAW_QUESTIONS, qid))

\* C9 witness: a stored question of two options whose correct slot is 2
C9_Witness ==
    \E sid \in DOMAIN SESSIONS :
        /\ Len(SESSIONS[sid].question_map[0].options) = 2
        /\ SESSIONS[sid].question_map[0].correct_option_id = 2

\* C10: every question of every session, and every prebuilt question, has
\* exactly K options, numbered 1 .. K in order, K >= 1 being default_options,
\* also when the pool holds fewer than K questions: the options that the
\* pool cannot supply are the target's answer with the suffix "_alt<i>", and
\* start_quiz does not fail.
C10_ExactlyKOptions ==
    /\ \A sid \in DOMAIN SESSIONS :
          \A pos \in DOMAIN SESSIONS[sid].question_map :
              LET q == SESSIONS[sid].question_map[pos]
                  correct == Answer(RAW_QUESTIONS, q.id)
                  supplied == Len(Candidates(RAW_QUESTIONS, correct))
              IN  /\ Len(q.options) = default_options
                  /\ \A i \in 1 .. Len(q.options) : q.options[i].id = i
                  /\ \A i \in 1 .. default_options - 1 - supplied :
                        \E j \in 1 .. Len(q.options) :
                            q.options[j].text = correct \o <<AltSuffix[i]>>
    /\ \A qid \in DOMAIN QUESTIONS :
          /\ Len(QUESTIONS[qid].options) = default_options
          /\ \A i \in 1 .. default_options : QUESTIONS[qid].options[i].id = i
    /\ (last.op = "start_quiz" /\ Len(RAW_QUESTIONS) > 0) => last.status = 200

\* C10 witness: a session over a pool of one question and K = 2 holds a
\* question whose second option is the padded answer
C10_Witness ==
    \E sid \in DOMAIN SESSIONS :
        LET q == SESSIONS[sid].question_map[0]
        IN  /\ Len(RAW_QUESTIONS) = 1
            /\ default_options = 2
            /\ Len(q.options) = 2
            /\ q.options[1].text = Answer(RAW_QUESTIONS, q.id)
            /\ q.options[2].text = Answer(RAW_QUESTIONS, q.id) \o <<"_alt0">>

\* a submit_answer request has just been accepted
Accepted(l) == l.op = "submit_answer" /\ l.status = 200

\* C11: an accepted submit_answer sets answers[question_id] to
\* (selected slot = correct slot of the question at the old position) and
\* leaves the other entries, adds 1 to the score if that is true and nothing
\* otherwise, adds exactly 1 to current_index, and leaves the session
\* finished exactly when the new current_index is len(picks); picks, the
\* generated questions, the user and every other session stay as they were.
C11_AcceptedEffect ==
    [][ Accepted(last') =>
          LET sid == last'.arg.session_id
              qid == last'.arg.question_id
              after == SESSIONS'[sid]
              q == Target.question_map[Target.current_index]
              hit == last'.arg.selected_option_id = q.correct_option_id
          IN  /\ DOMAIN after.answers = DOMAIN Target.answers \cup {qid}
              /\ after.answers[qid] = hit
              /\ \A k \in DOMAIN Target.answers \ {qid} :
                    after.answers[k] = Target.answers[k]
              /\ after.correct_count = Target.correct_count + (IF hit THEN 1 ELSE 0)
              /\ after.current_index = Target.current_index + 1
              /\ after.finished <=> after.current_index = Len(Target.question_ids)
              /\ after.question_ids = Target.question_ids
              /\ after.question_map = Target.question_map
              /\ after.user_id = Target.user_id
              /\ DOMAIN SESSIONS' = DOMAIN SESSIONS
              /\ \A other \in DOMAIN SESSIONS \ {sid} : SESSIONS'[other] = SESSIONS[other]
      ]_vars

\* C11 witness: a wrong answer for the second pick of a repeated id has been
\* accepted after a right answer for the first: the entry was overwritten,
\* the score kept
C11_Witness ==
    /\ Accepted(last)
    /\ ~last.out.correct
    /\ LET s == SESSIONS[last.arg.session_id]
       IN  /\ s.current_index = 2
           /\ s.correct_count = 1
           /\ s.question_ids[1] = s.question_ids[2]
           /\ s.answers[last.arg.question_id] = FALSE
           /\ s.finished

\* C12: the response of an accepted submit_answer carries correct = (selected
\* slot = correct slot), the correct slot and the text of the option in that
\* slot, the score and the finished flag of the session after the update,
\* total = len(picks), and index = the new current_index clamped to
\* len(picks) - 1: len(picks) - 1 on the finishing submission, the old
\* position + 1 otherwise.
C12_AnswerOutFields ==
    Accepted(last) =>
        LET s == SESSIONS[last.arg.session_id]
            old == s.current_index - 1
            q == s.question_map[old]
            n == Len(s.question_ids)
        IN  /\ last.out.correct = (last.arg.selected_option_id = q.correct_option_id)
            /\ last.out.correct_option_id = q.correct_option_id
            /\ \E i \in 1 .. Len(q.options) :
                  /\ q.options[i].id = q.correct_option_id
                  /\ last.out.correct_option_text = q.options[i].text
            /\ last.out.score = s.correct_count
            /\ last.out.finished = s.finished
            /\ last.out.total = n
            /\ last.out.index = Min(s.current_index, n - 1)
            /\ s.finished => last.out.index = n - 1
            /\ ~s.finished => last.out.index = old + 1

\* C12 witness: the finishing submission of a session of two picks has been
\* answered with index 1 while current_index is 2
C12_Witness ==
    /\ Accepted(last)
    /\ last.out.finished
    /\ last.out.total = 2
    /\ last.out.index = 1
    /\ SESSIONS[last.arg.session_id].current_index = 2

\* every accepted answer of the session selected the correct slot
AllCorrect(sid) == \A i \in 1 .. Len(written[sid]) : written[sid][i]

\* C13: in a session of n picks, the correct slot submitted for position 0 is
\* answered correct = true, score = 1 and, for n > 1, index = 1 and
\* finished = false; the session is finished exactly when n submissions have
\* been accepted; and after n accepted submissions that all selected the
\* correct slot, summary reports total = n and correct_count = n.
C13_AnswerFlow ==
    /\ \A sid \in DOMAIN SESSIONS :
          /\ Len(written[sid]) <= Len(SESSIONS[sid].question_ids)
          /\ SESSIONS[sid].finished <=>
                Len(written[sid]) = Len(SESSIONS[sid].question_ids)
    /\ Accepted(last) =>
          LET s == SESSIONS[last.arg.session_id]
              n == Len(s.question_ids)
          IN  (/\ Len(written[last.arg.session_id]) = 1
               /\ last.arg.selected_option_id = s.question_map[0].correct_option_id) =>
                  /\ last.out.correct
                  /\ last.out.score = 1
                  /\ n > 1 => (last.out.index = 1 /\ ~last.out.finished)
    /\ (last.op = "summary" /\ last.status = 200) =>
          LET sid == last.arg.session_id
              n == Len(SESSIONS[sid].question_ids)
          IN  (Len(written[sid]) = n /\ AllCorrect(sid)) =>
                  (last.out.total = n /\ last.out.correct_count = n)

\* C13 witness: the summary of a session of two picks, both answered with
\* the correct slot
C13_Witness ==
    /\ last.op = "summary"
    /\ last.status = 200
    /\ written[last.arg.session_id] = <<TRUE, TRUE>>
    /\ SESSIONS[last.arg.session_id].finished
    /\ last.out.total = 2
    /\ last.out.correct_count = 2

\* C14: submit_answer with the expected question id and a selected slot that
\* is not a slot number of the question's options is rejected with an error
\* and leaves the session as it was: no answer recorded, score and
\* current_index unchanged.
C14_UnknownSlotRejected ==
    [][ (/\ OnStoredSession("submit_answer")
         /\ ~Target.finished
         /\ last'.arg.question_id = ExpectedQid(Target)
         /\ \A i \in 1 .. Len(Target.question_map[Target.current_index].options) :
               Target.question_map[Target.current_index].options[i].id
                  # last'.arg.selected_option_id) =>
          /\ last'.status # 200
          /\ SESSIONS' = SESSIONS
      ]_vars

\* the number of True values assigned to session.answers[...] so far, every
\* assignment counted, also one that a later assignment to the same id
\* replaced
TrueWrites(sid) == Cardinality({i \in 1 .. Len(written[sid]) : written[sid][i]})

\* the number of True entries answers holds, a later write to a repeated
\* id having replaced the earlier one
TrueEntries(session) ==
    Cardinality({k \in DOMAIN session.answers : session.answers[k]})

\* the ids answered so far in session sid are pairwise distinct
NoRepeatAnswered(sid) ==
    \A i, j \in 1 .. Len(written[sid]) :
        i # j => SESSIONS[sid].question_ids[i] # SESSIONS[sid].question_ids[j]

\* C15 as stated: in every reachable state the correct_count of every
\* session, and the correct_count a summary reports, is the number of True
\* entries of answers, where the last write to a repeated id wins.
C15_CountsTrueEntries ==
    /\ \A sid \in DOMAIN SESSIONS :
          SESSIONS[sid].correct_count = TrueEntries(SESSIONS[sid])
    /\ (last.op = "summary" /\ last.status = 200) =>
          last.out.correct_count = TrueEntries(SESSIONS[last.arg.session_id])

\* C15 amended: in every reachable state the correct_count of every
\* session, and the correct_count a summary reports, is the number of
\* accepted answers judged right, i.e. of True values written into answers
\* during the life of the session, a write that a later answer to the same
\* id replaced included; it is the number of True entries of answers as
\* long as the ids answered are pairwise distinct, and never less than
\* that number.
C15_CountsTrueWrites ==
    /\ \A sid \in DOMAIN SESSIONS :
          /\ SESSIONS[sid].correct_count = TrueWrites(sid)
          /\ SESSIONS[sid].correct_count >= TrueEntries(SESSIONS[sid])
          /\ NoRepeatAnswered(sid) =>
                SESSIONS[sid].correct_count = TrueEntries(SESSIONS[sid])
    /\ (last.op = "summary" /\ last.status = 200) =>
          last.out.correct_count = TrueWrites(last.arg.session_id)

\* C15 witness: the summary of a session whose two picks are the same id,
\* answered right and then wrong: correct_count is 1 and answers holds no
\* True entry
C15_Witness ==
    /\ last.op = "summary"
    /\ last.status = 200
    /\ written[last.arg.session_id] = <<TRUE, FALSE>>
    /\ LET s == SESSIONS[last.arg.session_id]
       IN  /\ s.question_ids[1] = s.question_ids[2]
           /\ \A k \in DOMAIN s.answers : ~s.answers[k]
    /\ last.out.correct_count = 1

\* the positions of the session already answered whose pick is the given id
AnsweredAt(sid, qid) ==
    {j \in 1 .. Len(written[sid]) : SESSIONS[sid].question_ids[j] = qid}

\* C16: summary reports total = len(picks) and one detail per position, in
\* the order of picks; the detail of a position names the id picked there
\* (as its decimal string) and reads "correct" exactly when answers holds
\* True for that id, "wrong" otherwise; an id never answered reads "wrong",
\* and every position of an answered id shows the most recent accepted
\* answer for that id.
C16_SummaryDetails ==
    (last.op = "summary" /\ last.status = 200) =>
        LET sid == last.arg.session_id
            s == SESSIONS[sid]
            n == Len(s.question_ids)
        IN  /\ last.out.total = n
            /\ Len(last.out.details) = n
            /\ \A pos \in 1 .. n :
                  LET qid == s.question_ids[pos]
                      d == last.out.details[pos]
                      at == AnsweredAt(sid, qid)
                  IN  /\ d.question_id = <<"str", qid>>
                      /\ d.result \in {"correct", "wrong"}
                      /\ d.result = "correct" <=>
                            (qid \in DOMAIN s.answers /\ s.answers[qid])
                      /\ qid \notin DOMAIN s.answers => d.result = "wrong"
                      /\ at = {} => d.result = "wrong"
                      /\ at # {} =>
                            (d.result = "correct" <=>
                                written[sid][CHOOSE j \in at : \A k \in at : k <= j])

\* C16 witness: the summary of a session whose two picks are the same id,
\* after one right answer: the position not yet answered reads "correct" too
C16_Witness ==
    /\ last.op = "summary"
    /\ last.status = 200
    /\ written[last.arg.session_id] = <<TRUE>>
    /\ Len(last.out.details) = 2
    /\ last.out.details[1].question_id = last.out.details[2].question_id
    /\ last.out.details[2].result = "correct"

\* C17: summary writes nothing: the store, with every field of every
\* session, is after the request what it was before; and it is answered 200
\* for every session of the store, active or finished.
C17_SummaryPureRead ==
    [][ last'.op = "summary" =>
          /\ SESSIONS' = SESSIONS
          /\ written' = written
          /\ QUESTIONS' = QUESTIONS
          /\ last'.arg.session_id \in DOMAIN SESSIONS =>
                /\ last'.status = 200
                /\ last'.out.session_id = last'.arg.session_id
      ]_vars

\* C17 witness: the summary of a finished session in which no answer was
\* right has been served
C17_Witness ==
    /\ last.op = "summary"
    /\ last.status = 200
    /\ SESSIONS[last.arg.session_id].finished
    /\ SESSIONS[last.arg.session_id].correct_count = 0

\* C18: get_question writes nothing; on an active session it is answered for
\* every position 0 <= position < len(picks), answered already, current or
\* still ahead, with the id picked at that position, the slot numbers of the
\* question generated for it and total = len(picks); and since no request
\* changes the picks or the generated questions of a session, the answer is
\* the same every time.
C18_GetQuestionPureRead ==
    [][ /\ \A sid \in DOMAIN SESSIONS :
              /\ SESSIONS'[sid].question_ids = SESSIONS[sid].question_ids
              /\ SESSIONS'[sid].question_map = SESSIONS[sid].question_map
        /\ last'.op = "get_question" =>
              /\ SESSIONS' = SESSIONS
              /\ written' = written
              /\ (/\ last'.arg.session_id \in DOMAIN SESSIONS
                  /\ ~Target.finished
                  /\ 0 <= last'.arg.index
                  /\ last'.arg.index < Len(Target.question_ids)) =>
                    LET q == Target.question_map[last'.arg.index]
                    IN  /\ last'.status = 200
                        /\ last'.out.index = last'.arg.index
                        /\ last'.out.total = Len(Target.question_ids)
                        /\ last'.out.question_id = Target.question_ids[last'.arg.index + 1]
                        /\ last'.out.question_id = q.id
                        /\ Len(last'.out.options) = Len(q.options)
                        /\ \A i \in 1 .. Len(q.options) :
                              last'.out.options[i].number = q.options[i].id
      ]_vars

\* C18 witness: position 0 has been served again after it was answered, in
\* a session whose two picks differ
C18_Witness ==
    /\ last.op = "get_question"
    /\ last.status = 200
    /\ last.arg.index = 0
    /\ LET s == SESSIONS[last.arg.session_id]
       IN  /\ s.current_index = 1
           /\ s.question_ids[1] # s.question_ids[2]
           /\ last.out.question_id = s.question_ids[1]

\* C19: get_question on an active session is answered 400 "Index out of
\* range" exactly when position < 0 or position >= len(picks) and 200 for
\* every other position; on a finished session it is answered 400 "Quiz
\* already finished" whatever the position.
C19_GetQuestionErrors ==
    (last.op = "get_question" /\ last.arg.session_id \in DOMAIN SESSIONS) =>
        LET s == SESSIONS[last.arg.session_id]
            outside == last.arg.index < 0 \/ last.arg.index >= Len(s.question_ids)
        IN  IF s.finished
            THEN last.status = 400 /\ last.detail = "Quiz already finished"
            ELSE /\ outside => (last.status = 400 /\ last.detail = "Index out of range")
                 /\ ~outside => (last.status = 200 /\ last.out.index = last.arg.index)

\* C19 witness: the position len(picks) has been refused on an active
\* session
C19_Witness ==
    /\ last.op = "get_question"
    /\ last.detail = "Index out of range"
    /\ last.arg.session_id \in DOMAIN SESSIONS
    /\ ~SESSIONS[last.arg.session_id].finished
    /\ last.arg.index = Len(SESSIONS[last.arg.session_id].question_ids)

\* C20: get_question, submit_answer and summary for a session id that is
\* not in the store are answered 404 "Session not found" without a result,
\* add no session to the store and leave every stored session as it was.
C20_UnknownSession ==
    [][ (/\ last'.op \in {"get_question", "submit_answer", "summary"}
         /\ last'.arg.session_id \notin DOMAIN SESSIONS) =>
          /\ last'.status = 404
          /\ last'.detail = "Session not found"
          /\ last'.out = NoOut
          /\ DOMAIN SESSIONS' = DOMAIN SESSIONS
          /\ SESSIONS' = SESSIONS
      ]_vars

\* C20 witness: an answer for an unknown session has been refused while the
\* store holds a session that has advanced
C20_Witness ==
    /\ last.op = "submit_answer"
    /\ last.status = 404
    /\ last.arg.session_id \notin DOMAIN SESSIONS
    /\ \E sid \in DOMAIN SESSIONS : SESSIONS[sid].current_index > 0

\* C21: a request that is refused (finished session, question order
\* mismatch, position out of range, or any other error status) leaves the
\* store as it was: picks, generated questions, current_index, score,
\* finished and answers of every session are the same before and after.
C21_RejectedLeavesState ==
    [][ (last'.op \in {"get_question", "submit_answer", "summary", "start_quiz"}
         /\ last'.status # 200) =>
          /\ DOMAIN SESSIONS' = DOMAIN SESSIONS
          /\ \A sid \in DOMAIN SESSIONS :
                /\ SESSIONS'[sid].question_ids = SESSIONS[sid].question_ids
                /\ SESSIONS'[sid].question_map = SESSIONS[sid].question_map
                /\ SESSIONS'[sid].current_index = SESSIONS[sid].current_index
                /\ SESSIONS'[sid].correct_count = SESSIONS[sid].correct_count
                /\ SESSIONS'[sid].finished = SESSIONS[sid].finished
                /\ SESSIONS'[sid].answers = SESSIONS[sid].answers
          /\ written' = written
      ]_vars

\* C21 witness: an answer has been refused on a finished session that
\* holds a right answer
C21_Witness ==
    /\ last.op = "submit_answer"
    /\ last.detail = "Quiz already finished"
    /\ SESSIONS[last.arg.session_id].finished
    /\ SESSIONS[last.arg.session_id].correct_count = 1

\* the call of thread t is between its first and its last write
Writing(t) ==
    inflight[t].pc \in {"record", "score_read", "score_write", "advance_read",
                        "advance_write", "finish", "finish_write"}

\* no submit_answer call on session sid is in flight
NoAnswerInFlight(sid) ==
    \A t \in Threads :
        IF inflight[t].pc \in {"idle", "sum_count", "sum_detail"} THEN TRUE
        ELSE inflight[t].sid # sid

\* C22: with requests of two sessions in flight together, a step changes a
\* stored session only if it is a write of a submit_answer call on that very
\* session, and no step removes a session; and each session fares as if its
\* requests ran alone: whenever no submit_answer call on it is in flight,
\* its current_index is the number of its accepted answers, its score the
\* number of right ones, and it is finished exactly when all picks are
\* answered; the response of every submit_answer call reports the state of
\* its own session; and a summary, which may run while an answer to its own
\* session is being recorded, reports its own session's picks and nothing
\* that was not written to its own session (a score of at most the right
\* answers recorded so far, "correct" only if a right answer was recorded).
C22_SessionsIndependent ==
    /\ [][ /\ DOMAIN SESSIONS \subseteq DOMAIN SESSIONS'
           /\ \A sid \in DOMAIN SESSIONS :
                 SESSIONS'[sid] # SESSIONS[sid] =>
                    \E t \in Threads :
                        /\ Writing(t)
                        /\ inflight[t].sid = sid
                        /\ inflight'[t] # inflight[t]
           /\ \A t \in Threads :
                 (inflight[t].pc = "respond" /\ inflight'[t].pc = "idle") =>
                    LET s == SESSIONS[inflight[t].sid]
                    IN  /\ last'.arg.session_id = inflight[t].sid
                        /\ last'.out.score = s.correct_count
                        /\ last'.out.finished = s.finished
                        /\ last'.out.total = Len(s.question_ids)
                        /\ last'.out.index
                              = Min(s.current_index, Len(s.question_ids) - 1)
                        /\ last'.out.correct
                              = (last'.arg.selected_option_id
                                    = s.question_map[s.current_index - 1].correct_option_id)
           /\ \A t \in Threads :
                 (inflight[t].pc = "sum_detail" /\ inflight'[t].pc = "idle") =>
                    LET sid == inflight[t].sid
                        s == SESSIONS[sid]
                    IN  /\ last'.arg.session_id = sid
                        /\ last'.out.session_id = sid
                        /\ last'.out.total = Len(s.question_ids)
                        /\ last'.out.correct_count <= TrueWrites(sid)
                        /\ \A i \in 1 .. Len(s.question_ids) :
                              /\ last'.out.details[i].question_id
                                    = <<"str", s.question_ids[i]>>
                              /\ last'.out.details[i].result = "correct"
                                    => TrueWrites(sid) > 0
         ]_vars
    /\ [](\A sid \in DOMAIN SESSIONS :
            NoAnswerInFlight(sid) =>
                /\ SESSIONS[sid].current_index = Len(written[sid])
                /\ SESSIONS[sid].correct_count = TrueWrites(sid)
                /\ SESSIONS[sid].current_index <= Len(SESSIONS[sid].question_ids)
                /\ SESSIONS[sid].finished <=>
                      SESSIONS[sid].current_index = Len(SESSIONS[sid].question_ids))

\* C22 witness: a call on session s2 has been answered while a call on
\* session s1 is between its writes
C22_Witness ==
    /\ inflight["t1"].pc = "advance_write"
    /\ inflight["t2"].pc = "idle"
    /\ last.op = "submit_answer"
    /\ last.status = 200
    /\ last.arg.session_id = "s2"
    /\ SESSIONS["s2"].finished
    /\ ~SESSIONS["s1"].finished

\* the question a get_question or submit_answer response is about
AskedQuestion ==
    LET s == SESSIONS[last.arg.session_id]
    IN  IF last.op = "get_question" THEN s.question_map[last.arg.index]
        ELSE s.question_map[s.current_index - 1]

\* C23: the resolver answers None for an empty or missing reference, and a
\* get_question request for a question of a running session, like an
\* accepted submit_answer request, succeeds with the audio URL field absent
\* (None) wherever the question's prompt, option or correct option carries
\* no reference.
C23_EmptyReference ==
    /\ (last.op = "resolve" /\ last.arg.path \in {None, <<"">>}) =>
            last.status = 200 /\ last.out.url = None
    /\ (last.op = "get_question" /\ last.arg.session_id \in DOMAIN SESSIONS
            /\ ~SESSIONS[last.arg.session_id].finished
            /\ last.arg.index \in DOMAIN SESSIONS[last.arg.session_id].question_map) =>
            /\ last.status = 200
            /\ AskedQuestion.prompt_audio \in {None, <<"">>} =>
                    last.out.prompt_audio_url = None
            /\ \A i \in 1 .. Len(AskedQuestion.options) :
                    AskedQuestion.options[i].audio \in {None, <<"">>} =>
                        last.out.options[i].audio_url = None
    /\ (last.op = "submit_answer" /\ last.status = 200) =>
            (CorrectOpt(AskedQuestion).audio \in {None, <<"">>} =>
                last.out.correct_option_audio_url = None)

\* C23 witness: a question whose prompt has no audio was served with no
\* prompt audio URL and an option without audio URL
C23_Witness ==
    /\ last.op = "get_question"
    /\ last.status = 200
    /\ AskedQuestion.id = 2
    /\ AskedQuestion.prompt_audio = None
    /\ last.out.prompt_audio_url = None
    /\ last.out.options[1].audio_url = None

\* the URL of the file rel of the audio directory
UrlOf(rel) ==
    IF static_root = "audio" THEN <<"/static/">> \o rel
    ELSE <<"/static/", "audio/">> \o rel

\* "<stem><tag><suffix>" for the file name "<stem><suffix>" that ends rel
Tagged(rel, tag) ==
    LET name == IF Len(rel) >= 2 /\ rel[1] = "fr/" THEN Tail(rel) ELSE rel
    IN  IF name # <<>> /\ name[Len(name)] \in {".mp3", ".ogg"}
        THEN SubSeq(name, 1, Len(name) - 1) \o <<tag, name[Len(name)]>>
        ELSE name \o <<tag>>

\* C24: for a reference "audio/<rel>" the resolver returns the URL of <rel>
\* when that file exists; else the URL of "<stem>_country<suffix>" when that
\* exists; else the URL of "<stem>_answer<suffix>" when that exists; else the
\* URL of <rel> itself.
C24_ResolutionOrder ==
    (last.op = "resolve" /\ Len(last.arg.path) >= 1 /\ last.arg.path[1] = "audio/") =>
        LET rel == Tail(last.arg.path)
            literal == rel = <<>> \/ rel \in FILES
            country == Tagged(rel, "_country")
            answer == Tagged(rel, "_answer")
        IN  last.out.url =
                IF literal THEN UrlOf(rel)
                ELSE IF country \in FILES THEN UrlOf(country)
                ELSE IF answer \in FILES THEN UrlOf(answer)
                ELSE UrlOf(rel)

\* C24 witness: with both variants of a missing file present, the resolver
\* answered the "_country" one
C24_Witness ==
    /\ last.op = "resolve"
    /\ last.arg.path = <<"audio/", "fr/", "q", "1", ".mp3">>
    /\ <<"q", "1", "_country", ".mp3">> \in FILES
    /\ <<"q", "1", "_answer", ".mp3">> \in FILES
    /\ static_root = "static"
    /\ last.out.url = <<"/static/", "audio/", "q", "1", "_country", ".mp3">>

\* C25: every non-empty reference resolves to a URL, whatever files exist;
\* and an accepted answer on a question whose correct option carries a
\* reference reports a correct-option audio URL.
C25_AlwaysAUrl ==
    /\ (last.op = "resolve" /\ last.arg.path \notin {None, <<"">>}) =>
            /\ last.status = 200
            /\ last.out.url \notin {None, <<"">>}
    /\ (last.op = "submit_answer" /\ last.status = 200
            /\ CorrectOpt(AskedQuestion).audio \notin {None, <<"">>}) =>
            last.out.correct_option_audio_url \notin {None, <<"">>}

\* C25 witness: an accepted answer on a question generated by start_quiz
\* reported the URL of the audio file of its correct option
C25_Witness ==
    /\ last.op = "submit_answer"
    /\ last.status = 200
    /\ static_root = "static"
    /\ CorrectOpt(AskedQuestion).audio = <<"audio/", "q", "1", "_opt", "1", ".mp3">>
    /\ last.out.correct_option_audio_url
            = <<"/static/", "audio/", "q", "1", "_opt", "1", ".mp3">>

\* the session with every option text of every question struck out
Blanked(session) ==
    [session EXCEPT !.question_map =
        [k \in DOMAIN @ |->
            [@[k] EXCEPT !.options =
                [i \in DOMAIN @ |-> [@[i] EXCEPT !.text = <<>>]]]]]

\* C26: a get_question response is the same for any session that differs
\* from the asked one in option texts only, its options carry a number and
\* an audio URL and nothing else; the text of the correct option comes with
\* the outcome of an accepted answer.
C26_TextWithheld ==
    /\ (last.op = "get_question" /\ last.status = 200) =>
            /\ last.out = QuestionOut(last.arg.session_id,
                                      Blanked(SESSIONS[last.arg.session_id]),
                                      last.arg.index)
            /\ \A i \in 1 .. Len(last.out.options) :
                    DOMAIN last.out.options[i] = {"number", "audio_url"}
    /\ (last.op = "submit_answer" /\ last.status = 200) =>
            last.out.correct_option_text = CorrectOpt(AskedQuestion).text

\* C26 witness: a question with two options of different texts was served
C26_Witness ==
    /\ last.op = "get_question"
    /\ last.status = 200
    /\ Len(AskedQuestion.options) = 2
    /\ AskedQuestion.options[1].text # AskedQuestion.options[2].text
    /\ AskedQuestion.options[1].text # <<>>
    /\ Len(last.out.options) = 2

\* the audio reference names the answer file of question qid: it holds
\* the fragment "q<qid>_answer"
NamesAnswerOf(audio, qid) ==
    \E j \in 1 .. Len(audio) - 2 :
        audio[j] = "q" /\ audio[j + 1] = IdText[qid] /\ audio[j + 2] = "_answer"

\* C27: in every generated question of every session the options whose audio
\* reference names the question's own id ("q<id>_answer") are exactly the
\* options in the correct slot; the option found by that fragment in the
\* get_question view is therefore the one judged correct.
C27_AnswerAudioMarksCorrect ==
    \A sid \in DOMAIN SESSIONS :
        \A k \in DOMAIN SESSIONS[sid].question_map :
            LET q == SESSIONS[sid].question_map[k]
            IN  \A i \in 1 .. Len(q.options) :
                    NamesAnswerOf(q.options[i].audio, q.id)
                        <=> q.options[i].id = q.correct_option_id

\* the pool entries (positions of RAW_QUESTIONS) option i of q can stem from
StemsFrom(q, i) ==
    LET raw == RAW_QUESTIONS
        text == q.options[i].text
        correct == Answer(raw, q.id)
        own == {j \in 1 .. Len(raw) : raw[j].id = q.id}
    IN  IF text = correct THEN own
        ELSE IF Len(text) = Len(correct) + 1 /\ SubSeq(text, 1, Len(correct)) = correct
        THEN own
        ELSE {j \in 1 .. Len(raw) : text = <<"un">> \o Base(raw[j].answer)}

\* option i of q is a padding option: the target's answer with a suffix
IsPad(q, i) ==
    LET text == q.options[i].text
        correct == Answer(RAW_QUESTIONS, q.id)
    IN  Len(text) = Len(correct) + 1 /\ SubSeq(text, 1, Len(correct)) = correct

\* the pool entries of the questions other than the target
OtherIds(q) ==
    {j \in 1 .. Len(RAW_QUESTIONS) : RAW_QUESTIONS[j].id # q.id}

\* the pool entries a distractor of q may be taken from: the questions
\* whose base differs from the base word of the target's answer
Others(q) ==
    LET raw == RAW_QUESTIONS
    IN  {j \in 1 .. Len(raw) : Base(raw[j].answer) # OwnBase(Answer(raw, q.id))}

\* the slots of q outside the correct slot
NonCorrect(q) == {i \in 1 .. Len(q.options) : q.options[i].id # q.correct_option_id}

\* the options in the slots D stem from pairwise distinct entries of S
DistinctFrom(q, D, S) ==
    \E f \in [D -> S] :
        /\ \A i \in D : f[i] \in StemsFrom(q, i)
        /\ \A i, j \in D : i # j => f[i] # f[j]

\* the target's answer occurs once among the options of q
AnswerOnce(q) ==
    Cardinality({i \in 1 .. Len(q.options) :
                    q.options[i].text = Answer(RAW_QUESTIONS, q.id)}) = 1

C29_FreshPerPosition ==
    (Len(RAW_QUESTIONS) >= 2 /\ default_options >= 2 /\ SESSIONS = NoSessions) =>
        ENABLED (/\ \E u \in Users : start_quiz(u, 2, SessionIds)
                 /\ \E sid \in DOMAIN SESSIONS' :
                        /\ SESSIONS'[sid].question_ids[1] = SESSIONS'[sid].question_ids[2]
                        /\ SESSIONS'[sid].question_map[0] # SESSIONS'[sid].question_map[1])

\* C30: an option's audio reference is a function of the id of the question
\* it was taken from, whatever slot it was shuffled into: in particular the
\* correct options of any two stored questions of one id, both taken from
\* that id, carry the same audio reference.
C30_AudioBySourceId ==
    \A sid \in DOMAIN SESSIONS :
        \A k1, k2 \in DOMAIN SESSIONS[sid].question_map :
            LET q1 == SESSIONS[sid].question_map[k1]
                q2 == SESSIONS[sid].question_map[k2]
            IN  q1.id = q2.id => CorrectOpt(q1).audio = CorrectOpt(q2).audio

\* C31: a stored session holds one generated question for each position
\* 0 .. len(picks) - 1 and for no other, the question at position p has the
\* id picks[p], and no step changes the picks or a generated question of a
\* session that is already stored.
C31_QuestionsFrozen ==
    /\ [](\A sid \in DOMAIN SESSIONS :
            LET s == SESSIONS[sid]
            IN  /\ DOMAIN s.question_map = 0 .. Len(s.question_ids) - 1
                /\ \A p \in DOMAIN s.question_map :
                        s.question_map[p].id = s.question_ids[p + 1])
    /\ [][\A sid \in DOMAIN SESSIONS :
            /\ sid \in DOMAIN SESSIONS'
            /\ SESSIONS'[sid].question_ids = SESSIONS[sid].question_ids
            /\ SESSIONS'[sid].question_map = SESSIONS[sid].question_map]_vars

\* C31 witness: a session of two different picks, fully answered and
\* summarised, still holds its two questions
C31_Witness ==
    /\ last.op = "summary"
    /\ last.status = 200
    /\ LET s == SESSIONS[last.arg.session_id]
       IN  /\ s.finished
           /\ s.question_ids = <<2, 1>>
           /\ s.question_map[0].id = 2
           /\ s.question_map[1].id = 1

\* C32: under calls that do not overlap, a session is finished exactly when
\* current_index = len(picks), current_index is a position of picks while
\* it is not finished, and no request is ever refused with "Invalid session
\* index" (nor with "Question not found in session").
C32_PositionInBounds ==
    /\ \A sid \in DOMAIN SESSIONS :
          LET s == SESSIONS[sid]
          IN  /\ s.finished <=> s.current_index = Len(s.question_ids)
              /\ ~s.finished =>
                    (0 <= s.current_index /\ s.current_index < Len(s.question_ids))
    /\ last.detail \notin {"Invalid session index", "Question not found in session"}

\* C32 witness: an answer sent to a session of two picks whose current_index
\* is 2 was refused because the session is finished
C32_Witness ==
    /\ last.op = "submit_answer"
    /\ last.status = 400
    /\ last.detail = "Quiz already finished"
    /\ SESSIONS[last.arg.session_id].current_index = 2
    /\ Len(SESSIONS[last.arg.session_id].question_ids) = 2

\* C33: under calls that do not overlap,
\* 0 <= correct_count <= current_index <= len(picks), correct_count is the
\* number of accepted submissions of the session whose selected slot was the
\* correct slot of the position they answered, and no step lowers it.
C33_ScoreBounds ==
    /\ [](\A sid \in DOMAIN SESSIONS :
            LET s == SESSIONS[sid]
            IN  /\ 0 <= s.correct_count
                /\ s.correct_count <= s.current_index
                /\ s.current_index <= Len(s.question_ids)
                /\ s.current_index = Len(written[sid])
                /\ s.correct_count =
                      Cardinality({p \in 1 .. Len(written[sid]) : written[sid][p]}))
    /\ [][\A sid \in DOMAIN SESSIONS \cap DOMAIN SESSIONS' :
              SESSIONS'[sid].correct_count >= SESSIONS[sid].correct_count]_vars

\* C33 witness: a session of two picks answered wrong, then right
C33_Witness ==
    \E sid \in DOMAIN SESSIONS :
        /\ written[sid] = <<FALSE, TRUE>>
        /\ SESSIONS[sid].correct_count = 1
        /\ SESSIONS[sid].current_index = 2

\* C34: under calls that do not overlap, the keys of answers are exactly
\* the question ids at the positions 0 .. current_index - 1 of picks.
C34_AnswerKeys ==
    \A sid \in DOMAIN SESSIONS :
        LET s == SESSIONS[sid]
        IN  DOMAIN s.answers = {s.question_ids[p] : p \in 1 .. s.current_index}

\* C34 witness: a session with picks 1, 2 whose first position is answered:
\* answers has a record for id 1 and none for id 2
C34_Witness ==
    \E sid \in DOMAIN SESSIONS :
        /\ SESSIONS[sid].question_ids = <<1, 2>>
        /\ SESSIONS[sid].current_index = 1
        /\ DOMAIN SESSIONS[sid].answers = {1}

\* C35: when the request of an accepted submit_answer is sent again as the
\* next call, it is refused and the store is left as it is, with "Quiz
\* already finished" if the answered position was the last and with
\* "Question order mismatch" if the pick at the new current_index has
\* another id; it is accepted only if that pick has the same id, and is then
\* judged against the correct slot of the question at the new current_index.
C35_DuplicateAnswer ==
    [][(/\ last.op = "submit_answer"
        /\ last.status = 200
        /\ last'.op = "submit_answer"
        /\ last'.arg = last.arg) =>
            LET s == SESSIONS[last.arg.session_id]
            IN  IF s.finished
                THEN /\ last'.status = 400
                     /\ last'.detail = "Quiz already finished"
                     /\ SESSIONS' = SESSIONS
                ELSE IF s.question_ids[s.current_index + 1] # last.arg.question_id
                THEN /\ last'.status = 400
                     /\ last'.detail = "Question order mismatch"
                     /\ SESSIONS' = SESSIONS
                ELSE /\ last'.status = 200
                     /\ last'.out.correct =
                            (last.arg.selected_option_id
                                = s.question_map[s.current_index].correct_option_id)
                     /\ SESSIONS'[last.arg.session_id].current_index
                            = s.current_index + 1]_vars

\* C35 witness: in a session with picks 1, 2 the answer to position 0 was
\* sent again and refused for the order
C35_Witness ==
    /\ last.op = "submit_answer"
    /\ last.status = 400
    /\ last.detail = "Question order mismatch"
    /\ LET s == SESSIONS[last.arg.session_id]
       IN  /\ s.question_ids = <<1, 2>>
           /\ s.current_index = 1
           /\ last.arg.question_id = 1
           /\ last.arg.selected_option_id = s.question_map[0].correct_option_id
           /\ s.correct_count = 1

\* C36: in the chat bot every session holds at most one answer record per
\* question index, its correct counter is at most the number of its
\* questions, and its current index, advancing by one per question, is at
\* most that number, also when two callbacks for one index interleave at
\* the awaits of the handler.
C36_OneRecordPerIndex ==
    \A o \in 1 .. Len(SESSIONS.objs) :
        LET s == SESSIONS.objs[o]
        IN  /\ \A i, j \in 1 .. Len(s.answers) :
                    i # j => s.answers[i].idx # s.answers[j].idx
            /\ s.correct <= Len(s.questions)
            /\ s.current <= Len(s.questions)

\* the files the resolution of "audio/<rel>" may look at
Probed(rel) == {rel, Tagged(rel, "_country"), Tagged(rel, "_answer")}

\* C37: a non-empty reference that does not start with "audio/" is returned
\* as it is, whatever the audio directory holds; a URL under /static is
\* returned for references that start with "audio/" only; and for such a
\* reference the URL is the one the resolver gives when the directory holds
\* none but the literal file and its "_country" and "_answer" variants.
C37_PrefixOnly ==
    last.op = "resolve" =>
        LET path == last.arg.path
            url == last.out.url
            prefixed == Len(path) >= 1 /\ path[1] = "audio/"
        IN  /\ (path \notin {None, <<"">>} /\ ~prefixed) => url = path
            /\ (Len(url) >= 1 /\ url[1] = "/static/") => prefixed
            /\ prefixed =>
                    url = audio_url(path, FILES \cap Probed(Tail(path)), static_root)

\* C37 witness: over a directory that holds four files of question 1, the
\* reference to a file of question 2 resolved to its own URL
C37_Witness ==
    /\ last.op = "resolve"
    /\ last.arg.path = <<"audio/", "q", "2", ".mp3">>
    /\ FILES = AudioFiles
    /\ static_root = "audio"
    /\ last.out.url = <<"/static/", "q", "2", ".mp3">>

=============================================================================
